---- MODULE Spec2Model ----
(***************************************************************************)
(* ZotWatch: the retry wrapper (llm/retry.py), the candidate filters       *)
(* (pipeline/filters.py), the profile ranker (pipeline/profile_ranker.py), *)
(* the watch pipeline orchestrator (pipeline/watch.py), the SQLite cache   *)
(* base (infrastructure/cache_base.py), the deduplication engine, the      *)
(* embedding provider (infrastructure/embedding/voyage.py) and the HTTP    *)
(* client (infrastructure/http/client.py), each as a state machine over    *)
(* its own variables.                                                      *)
(*                                                                         *)
(* Optional Python values are sequences of length <= 1: None is <<>> and   *)
(* a present value x is <<x>>.                                             *)
(***************************************************************************)
EXTENDS Integers, Sequences, FiniteSets, TLC

VARIABLES
    \* ---- with_retry.wrapper (llm/retry.py) ----
    r_pc,              \* "idle", "loop", "returned", "raised", "propagated"
    r_cfg,             \* the decorator's arguments
    attempt,           \* loop variable of `for attempt in range(max_attempts)`
    delay,             \* seconds
    last_exception,    \* Optional exception type name
    last_status_code,  \* Optional HTTP status
    calls,             \* number of invocations of func
    sleeps,            \* arguments of time.sleep, in tenths of a second
    fails,             \* outcome of every failed attempt, in order
    r_error,           \* Optional NetworkError raised by the wrapper
    \* ---- pipeline/filters.py: the last call of a filter function ----
    f_op,              \* "none" before the call, then the function called
    f_in,              \* the list passed in
    f_arg,             \* days, or max_ratio in tenths
    f_now,             \* the instant of the call, in ticks
    f_out,             \* the list returned
    \* ---- ProfileRanker (pipeline/profile_ranker.py) ----
    k_pc,              \* "idle", then how the last rank call ended: "ranked", "raised"
    k_calls,           \* number of rank calls made on the ranker
    k_cfg,             \* settings.scoring.thresholds
    k_candidates,      \* the batch given to rank
    k_ranked,          \* the list the last rank call returned (empty if it raised)
    last_computed_thresholds,  \* Optional ComputedThresholds
    \* ---- WatchPipeline.run (pipeline/watch.py) ----
    p_pc,              \* the stage to run next, or "returned" or "raised"
    p_cfg,             \* the settings and the WatchConfig of the pipeline
    p_trace,           \* the stages executed so far, in order
    p_failure,         \* Optional [stage, point]: the exception that left run()
    p_caught,          \* the [stage, point] exceptions caught inside run()
    p_events,          \* the calls of the progress sink: [stage running, stage_name passed]
    p_llm_client,        \* self._llm_client: None until created
    p_candidates,        \* local variable of run()
    p_ranked,            \* local variable of run()
    p_result,            \* the WatchResult under construction
    \* ---- one cache instance (infrastructure/cache_base.py) used by several threads ----
    c_rows,            \* the table: key -> Optional [vector, expires]
    c_write_lock,      \* self._write_lock: Optional thread holding it
    c_now,             \* the clock, in ticks
    c_stored,          \* key -> Optional [vector, expires] of the last store of the key
    c_stores,          \* number of store calls made
    t_pc,              \* thread -> "idle", "store_write", "cleanup_commit"
    t_arg,             \* thread -> the arguments or locals of its call in progress
    c_lookup,          \* Optional [key, result] of the last lookup
    \* ---- DedupeEngine (pipeline/dedupe.py), as WatchPipeline.run uses it ----
    d_recorded,        \* the persisted fingerprints
    d_in,              \* the batch given to the last filter call
    d_out,             \* the batch the last filter call returned
    \* ---- VoyageEmbedding.encode (infrastructure/embedding/voyage.py) ----
    e_pc,              \* "idle", "loop", "returned", "raised"
    e_cfg,             \* [batch_size, api_key] of the provider
    e_texts,           \* the texts given to encode
    e_i,               \* the offset of the next chunk
    e_requests,        \* the chunks passed to client.embed, in order
    e_all,             \* all_embeddings
    e_out,             \* Optional array returned
    e_error,           \* Optional name of the exception that left encode
    \* ---- HTTPClient._request (infrastructure/http/client.py) ----
    h_pc,              \* "idle", "loop", "returned", "raised"
    h_cfg,             \* [max_retries, backoff_factor] of the client
    h_attempt,         \* the loop variable
    h_delay,           \* delay, in seconds
    h_last_exception,  \* Optional exception type name
    h_responses,       \* the outcome of every session.request call, in order
    h_sleeps,          \* the time.sleep calls: [attempt, seconds]
    h_result,          \* Optional response returned
    h_error            \* Optional exception that left _request: [type, url]

retry_vars == <<r_pc, r_cfg, attempt, delay, last_exception, last_status_code,
                calls, sleeps, fails, r_error>>

filter_vars == <<f_op, f_in, f_arg, f_now, f_out>>

ranker_vars == <<k_pc, k_calls, k_cfg, k_candidates, k_ranked, last_computed_thresholds>>

run_vars == <<p_pc, p_cfg, p_trace, p_failure, p_caught, p_events, p_llm_client,
              p_candidates, p_ranked, p_result>>

cache_vars == <<c_rows, c_write_lock, c_now, c_stored, c_stores, t_pc, t_arg, c_lookup>>

dedupe_vars == <<d_recorded, d_in, d_out>>

encoder_vars == <<e_pc, e_cfg, e_texts, e_i, e_requests, e_all, e_out, e_error>>

http_vars == <<h_pc, h_cfg, h_attempt, h_delay, h_last_exception, h_responses, h_sleeps,
               h_result, h_error>>

vars == <<retry_vars, filter_vars, ranker_vars, run_vars, cache_vars, dedupe_vars,
          encoder_vars, http_vars>>

None == <<>>
Some(x) == <<x>>

(***************************************************************************)
(* llm/retry.py                                                            *)
(***************************************************************************)

\* Bound on max_attempts.
MaxAttempts == 3

RetryableMutant == {404, 429, 500, 502, 503, 504}
RETRYABLE_STATUS_CODES == {429, 500, 502, 503, 504}

\* Statuses an HTTPError of the wrapped operation may carry.
HttpStatuses == {400, 404, 429, 500, 503}

\* Retry-After header values: absent, empty, not a number, numbers.
RetryAfterHeaders == {None, Some(""), Some("abc"), Some("0"), Some("3")}

ParseFloatMutant(s) ==
    CASE s = "0" -> Some(0)
      [] s = "3" -> Some(3)
      [] OTHER -> Some(0)
\* float(s): the number a header string parses to, None for ValueError.
ParseFloat(s) ==
    CASE s = "0" -> Some(0)
      [] s = "3" -> Some(3)
      [] OTHER -> None

\* What one invocation of func can do.
\*   ok          it returns
\*   http        requests.exceptions.HTTPError; response is None or a record
\*   ConnectionError, Timeout   the two other caught classes
\*   other       any other exception
HttpOutcomes ==
    {[kind |-> "http", response |-> None]}
    \cup {[kind |-> "http", response |-> Some([status_code |-> s, retry_after |-> None])] :
            s \in HttpStatuses \ {429}}
    \cup {[kind |-> "http", response |-> Some([status_code |-> 429, retry_after |-> h])] :
            h \in RetryAfterHeaders}
ConnOutcomes == {[kind |-> "ConnectionError"], [kind |-> "Timeout"]}

\* status_code = e.response.status_code if e.response is not None else None
StatusOf(out) ==
    IF out.response = None THEN None ELSE Some(out.response[1].status_code)

GetRetryAfterMutant(response, default) == default
\* _get_retry_after(response, default)
GetRetryAfter(response, default) ==
    IF response = None THEN default
    ELSE LET retry_after == response[1].retry_after
         IN IF retry_after # None /\ retry_after[1] # ""
            THEN IF ParseFloat(retry_after[1]) # None
                 THEN ParseFloat(retry_after[1])[1]
                 ELSE default
            ELSE default

\* jitter is in tenths (1 stands for DEFAULT_JITTER = 0.1); random.uniform(-jitter,
\* jitter) is drawn at the two ends and the middle of its range.
JitterDraws(jitter) == {-jitter, 0, jitter}

AddJitterMutant(d, u) == d * 10
\* _add_jitter(delay, jitter) with the draw u; the result is in tenths of a second.
AddJitter(d, u) == d * (10 + u)

NextDelayMutant(d, backoff_factor) == d + backoff_factor
\* delay *= backoff_factor
NextDelay(d, backoff_factor) == d * backoff_factor

MaySleepMutant(a, max_attempts) == a < max_attempts - 2
\* if attempt < max_attempts - 1
MaySleep(a, max_attempts) == a < max_attempts - 1

RetryConfigs ==
    [max_attempts : 1..MaxAttempts, backoff_factor : {1, 2}, initial_delay : {1, 2},
     jitter : {0, 1}]

\* with_retry touches nothing of the other components.
RetryFrame ==
    UNCHANGED <<filter_vars, ranker_vars, run_vars, cache_vars, dedupe_vars,
                encoder_vars, http_vars>>

RetryInit ==
    /\ r_pc = "idle"
    /\ r_cfg = [max_attempts |-> 1, backoff_factor |-> 2, initial_delay |-> 1, jitter |-> 1]
    /\ attempt = 0
    /\ delay = 0
    /\ last_exception = None
    /\ last_status_code = None
    /\ calls = 0
    /\ sleeps = <<>>
    /\ fails = <<>>
    /\ r_error = None

\* The decorated function is called: retry.py lines 83-86.
RetryCall ==
    /\ RetryFrame
    /\ r_pc = "idle"
    /\ \E cfg \in RetryConfigs :
        /\ r_cfg' = cfg
        /\ delay' = cfg.initial_delay
    /\ r_pc' = "loop"
    /\ attempt' = 0
    /\ last_exception' = None
    /\ last_status_code' = None
    /\ calls' = 0
    /\ sleeps' = <<>>
    /\ fails' = <<>>
    /\ r_error' = None

\* retry.py lines 126-128 and the loop step, after a caught failure that left the
\* delay at d.
SleepAndBackoff(d) ==
    /\ IF MaySleep(attempt, r_cfg.max_attempts)
       THEN /\ \E u \in JitterDraws(r_cfg.jitter) : sleeps' = Append(sleeps, AddJitter(d, u))
            /\ delay' = NextDelay(d, r_cfg.backoff_factor)
       ELSE /\ sleeps' = sleeps
            /\ delay' = d
    /\ attempt' = attempt + 1

\* func returns: retry.py line 90.
AttemptReturns ==
    /\ RetryFrame
    /\ r_pc = "loop" /\ attempt < r_cfg.max_attempts
    /\ calls' = calls + 1
    /\ r_pc' = "returned"
    /\ UNCHANGED <<r_cfg, attempt, delay, last_exception, last_status_code, sleeps, fails,
                   r_error>>

\* func raises an HTTPError with a non-retryable status: retry.py lines 91-98.
AttemptNonRetryable ==
    /\ RetryFrame
    /\ r_pc = "loop" /\ attempt < r_cfg.max_attempts
    /\ \E out \in HttpOutcomes :
        /\ StatusOf(out) # None /\ StatusOf(out)[1] \notin RETRYABLE_STATUS_CODES
        /\ fails' = Append(fails, out)
        /\ r_error' = Some([kind |-> "http", status_code |-> StatusOf(out)[1]])
    /\ calls' = calls + 1
    /\ r_pc' = "raised"
    /\ UNCHANGED <<r_cfg, attempt, delay, last_exception, last_status_code, sleeps>>

\* func raises an HTTPError that is retried: retry.py lines 91-114, 126-128.
AttemptHTTPError ==
    /\ RetryFrame
    /\ r_pc = "loop" /\ attempt < r_cfg.max_attempts
    /\ \E out \in HttpOutcomes :
        /\ ~(StatusOf(out) # None /\ StatusOf(out)[1] \notin RETRYABLE_STATUS_CODES)
        /\ fails' = Append(fails, out)
        /\ last_exception' = Some("HTTPError")
        /\ last_status_code' = StatusOf(out)
        /\ SleepAndBackoff(IF StatusOf(out) = Some(429)
                           THEN GetRetryAfter(out.response, delay)
                           ELSE delay)
    /\ calls' = calls + 1
    /\ UNCHANGED <<r_pc, r_cfg, r_error>>

\* func raises ConnectionError or Timeout: retry.py lines 115-124, 126-128.
AttemptConnError ==
    /\ RetryFrame
    /\ r_pc = "loop" /\ attempt < r_cfg.max_attempts
    /\ \E out \in ConnOutcomes :
        /\ fails' = Append(fails, out)
        /\ last_exception' = Some(out.kind)
    /\ SleepAndBackoff(delay)
    /\ calls' = calls + 1
    /\ UNCHANGED <<r_pc, r_cfg, last_status_code, r_error>>

\* func raises an exception no except clause names: it leaves the wrapper as it is.
AttemptOtherError ==
    /\ RetryFrame
    /\ r_pc = "loop" /\ attempt < r_cfg.max_attempts
    /\ calls' = calls + 1
    /\ fails' = Append(fails, [kind |-> "other"])
    /\ r_pc' = "propagated"
    /\ UNCHANGED <<r_cfg, attempt, delay, last_exception, last_status_code, sleeps, r_error>>

\* error_detail = f"HTTP {last_status_code}" if last_status_code else type(last_exception).__name__
ErrorDetail(status, exc) ==
    IF status # None /\ status[1] # 0
    THEN [class |-> "HTTP", status_code |-> status[1]]
    ELSE [class |-> IF exc = None THEN "NoneType" ELSE exc[1]]

\* The loop is over: retry.py lines 130-134.
RetryExhausted ==
    /\ RetryFrame
    /\ r_pc = "loop" /\ attempt >= r_cfg.max_attempts
    /\ r_error' = Some([kind |-> "exhausted", attempts |-> r_cfg.max_attempts,
                        detail |-> ErrorDetail(last_status_code, last_exception)])
    /\ r_pc' = "raised"
    /\ UNCHANGED <<r_cfg, attempt, delay, last_exception, last_status_code, calls, sleeps,
                   fails>>

RetryNext ==
    \/ RetryCall
    \/ AttemptReturns
    \/ AttemptNonRetryable
    \/ AttemptHTTPError
    \/ AttemptConnError
    \/ AttemptOtherError
    \/ RetryExhausted

RECURSIVE Pow(_, _)
Pow(b, e) == IF e = 0 THEN 1 ELSE b * Pow(b, e - 1)

\* The attempt failed with ConnectionError or Timeout.
IsConnFailure(out) == out.kind \in {"ConnectionError", "Timeout"}
\* The attempt failed with an HTTP error whose status is outside the retryable set.
IsNonRetryable(out) ==
    /\ out.kind = "http" /\ out.response # None
    /\ out.response[1].status_code \notin {429, 500, 502, 503, 504}
\* The attempt failed with HTTP 429 and a Retry-After header holding a number.
HasSuggestedDelay(out) ==
    /\ out.kind = "http" /\ out.response # None
    /\ out.response[1].status_code = 429
    /\ out.response[1].retry_after \in {Some("0"), Some("3")}
SuggestedDelay(out) == IF out.response[1].retry_after = Some("0") THEN 0 ELSE 3
\* A transient failure without a suggested delay.
IsPlainTransient(out) ==
    \/ IsConnFailure(out)
    \/ out.kind = "http" /\ ~IsNonRetryable(out) /\ ~HasSuggestedDelay(out)

\* C4: with jitter 0 and every attempt failing with a transient error that carries
\* no suggested delay, func is invoked max_attempts times, max_attempts - 1 sleeps
\* occur, the i-th (from 0) lasting initial_delay * backoff_factor^i, none after the
\* final attempt, and then the wrapper raises the aggregated NetworkError.
C4_ExponentialBackoff ==
    (r_pc \in {"loop", "raised"} /\ r_cfg.jitter = 0
        /\ \A i \in 1..Len(fails) : IsPlainTransient(fails[i]))
    => /\ calls = Len(fails) /\ calls <= r_cfg.max_attempts
       /\ Len(sleeps) = (IF calls < r_cfg.max_attempts THEN calls ELSE r_cfg.max_attempts - 1)
       /\ \A i \in 1..Len(sleeps) :
            sleeps[i] = 10 * r_cfg.initial_delay * Pow(r_cfg.backoff_factor, i - 1)
       /\ (r_pc = "raised" =>
            /\ calls = r_cfg.max_attempts
            /\ r_error # None /\ r_error[1].kind = "exhausted")
       /\ (calls = r_cfg.max_attempts /\ r_pc = "loop" => ENABLED RetryExhausted)

C4_Witness ==
    /\ r_pc = "raised" /\ r_cfg.jitter = 0
    /\ r_cfg.max_attempts = 3 /\ r_cfg.initial_delay = 1 /\ r_cfg.backoff_factor = 2
    /\ \A i \in 1..Len(fails) : IsPlainTransient(fails[i])
    /\ calls = 3 /\ sleeps = <<10, 20>>

\* The failure class of one failed attempt, as the NetworkError is to state it.
FailureClass(out) ==
    IF out.kind = "http" /\ out.response # None
    THEN [class |-> "HTTP", status_code |-> out.response[1].status_code]
    ELSE [class |-> IF out.kind = "http" THEN "HTTPError" ELSE out.kind]

\* C5: when every attempt fails transiently the NetworkError states max_attempts and
\* the failure class of the last failed attempt, also for sequences that mix
\* HTTP-status failures with connection or timeout failures.
C5_LastFailureClass ==
    (r_pc = "raised" /\ r_error[1].kind = "exhausted")
    => /\ r_error[1].attempts = r_cfg.max_attempts
       /\ r_error[1].detail = FailureClass(fails[Len(fails)])

\* C6: a 429 with Retry-After r makes the next sleep r (within the jitter range), and
\* the sleeps after failures that carry no suggested delay of their own continue
\* from it: r * backoff_factor, r * backoff_factor^2, ...
C6_RetryAfterHonoured ==
    \A i \in 1..Len(sleeps) :
        HasSuggestedDelay(fails[i]) =>
            \A k \in 0..(Len(sleeps) - i) :
                (\A m \in (i + 1)..(i + k) : ~HasSuggestedDelay(fails[m]))
                => LET base == SuggestedDelay(fails[i]) * Pow(r_cfg.backoff_factor, k)
                   IN /\ sleeps[i + k] >= base * (10 - r_cfg.jitter)
                      /\ sleeps[i + k] <= base * (10 + r_cfg.jitter)

C6_Witness ==
    /\ r_cfg.jitter = 0 /\ r_cfg.backoff_factor = 2 /\ r_cfg.initial_delay = 1
    /\ Len(fails) >= 2 /\ Len(sleeps) = 2
    /\ HasSuggestedDelay(fails[1]) /\ SuggestedDelay(fails[1]) = 3
    /\ IsConnFailure(fails[2])
    /\ sleeps = <<30, 60>>

\* C7: an HTTP error with a status outside {429, 500, 502, 503, 504} makes the
\* wrapper raise NetworkError on that attempt: no sleep, no further invocation.
C7_NonRetryableImmediate ==
    \A i \in 1..Len(fails) :
        IsNonRetryable(fails[i]) =>
            /\ i = Len(fails)
            /\ calls = i
            /\ Len(sleeps) = i - 1
            /\ r_pc = "raised"
            /\ r_error = Some([kind |-> "http", status_code |-> fails[i].response[1].status_code])

C7_Witness ==
    /\ r_pc = "raised" /\ r_cfg.max_attempts = 3
    /\ Len(fails) = 2 /\ IsNonRetryable(fails[2]) /\ calls = 2 /\ Len(sleeps) = 1


(***************************************************************************)
(* pipeline/filters.py                                                     *)
(***************************************************************************)

\* Bound on the length of the list given to limit_preprints.
MaxWorks == 4
\* Bound on the length of the list given to filter_recent.
MaxRecentWorks == 3
\* Resolution of the clock: instants are counted in ticks, TicksPerDay to a day.
TicksPerDay == 2
\* Bound on the days argument of filter_recent.
MaxDays == 2

PREPRINT_SOURCES == {"arxiv", "biorxiv", "medrxiv"}

\* Source names as the fetchers may spell them.
SourceNames == {"arxiv", "ArXiv", "bioRxiv", "medrxiv", "crossref"}

\* str.lower() on the source names.
Lower(s) ==
    CASE s = "ArXiv" -> "arxiv"
      [] s = "bioRxiv" -> "biorxiv"
      [] OTHER -> s

\* max_ratio values, in tenths: 0, 0.3, 0.5, 0.9 (the default), 1.0.
MaxRatios == {0, 3, 5, 9, 10}

IsPreprintMutant(work) == work.source \in PREPRINT_SOURCES
\* source = work.source.lower(); source in PREPRINT_SOURCES
IsPreprint(work) == Lower(work.source) \in PREPRINT_SOURCES

ExceedsRatioMutant(proposed_preprints, proposed_total, max_ratio) ==
    proposed_preprints * 10 > max_ratio * (proposed_total + 1)
\* (proposed_preprints / proposed_total) > max_ratio
ExceedsRatio(proposed_preprints, proposed_total, max_ratio) ==
    proposed_preprints * 10 > max_ratio * proposed_total

RECURSIVE LimitLoopMutant(_, _, _, _, _)
LimitLoopMutant(ranked, max_ratio, i, filtered, preprint_count) ==
    IF i > Len(ranked) THEN filtered
    ELSE LET work == ranked[i]
             proposed_total == Len(filtered) + 1
         IN IF IsPreprint(work)
            THEN IF ExceedsRatio(preprint_count + 1, proposed_total, max_ratio)
                 THEN LimitLoopMutant(ranked, max_ratio, i + 1, filtered, preprint_count)
                 ELSE LimitLoopMutant(ranked, max_ratio, i + 1, Append(filtered, work),
                                      preprint_count + 1)
            ELSE LimitLoopMutant(ranked, max_ratio, i + 1, <<work>> \o filtered,
                                 preprint_count)
\* The loop of limit_preprints from position i on.
RECURSIVE LimitLoop(_, _, _, _, _)
LimitLoop(ranked, max_ratio, i, filtered, preprint_count) ==
    IF i > Len(ranked) THEN filtered
    ELSE LET work == ranked[i]
             proposed_total == Len(filtered) + 1
         IN IF IsPreprint(work)
            THEN IF ExceedsRatio(preprint_count + 1, proposed_total, max_ratio)
                 THEN LimitLoop(ranked, max_ratio, i + 1, filtered, preprint_count)
                 ELSE LimitLoop(ranked, max_ratio, i + 1, Append(filtered, work),
                                preprint_count + 1)
            ELSE LimitLoop(ranked, max_ratio, i + 1, Append(filtered, work), preprint_count)

LimitPreprintsMutant(ranked, max_ratio) ==
    IF ranked = <<>> \/ max_ratio <= 0 THEN ranked
    ELSE LimitLoop(ranked, max_ratio, 2, <<>>, 0)
\* limit_preprints(ranked, max_ratio=...)
LimitPreprints(ranked, max_ratio) ==
    IF ranked = <<>> \/ max_ratio <= 0 THEN ranked
    ELSE LimitLoop(ranked, max_ratio, 1, <<>>, 0)

\* utc_today_start(): 00:00 UTC of the day of the instant now.
UtcTodayStart(now) == now - (now % TicksPerDay)

\* timedelta(days=days)
Timedelta(days) == days * TicksPerDay

IsRecentMutant(work, cutoff) == work.published = None \/ work.published[1] >= cutoff
\* work.published and work.published >= cutoff
IsRecent(work, cutoff) == work.published # None /\ work.published[1] >= cutoff

\* filter_recent(ranked, days=...) called at the instant now
FilterRecent(ranked, days, now) ==
    IF days <= 0 THEN ranked
    ELSE LET cutoff == UtcTodayStart(now) - Timedelta(days)
         IN SelectSeq(ranked, LAMBDA work : IsRecent(work, cutoff))

\* The lists of at most n works whose varying attributes are drawn from attrs;
\* the identifier of a work is its position in the list.
WorkLists(attrs, n) ==
    UNION {[1..k -> attrs] : k \in 0..n}

WithIdentifiers(ws) == [i \in 1..Len(ws) |-> [identifier |-> i] @@ ws[i]]

\* The instants of the call: every tick of the day after MaxDays + 1 whole days.
CallInstants == ((MaxDays + 1) * TicksPerDay)..((MaxDays + 2) * TicksPerDay - 1)

\* Publication instants: none, or any tick up to the end of the day of the call.
PublishedValues == {None} \cup {Some(t) : t \in 0..((MaxDays + 2) * TicksPerDay - 1)}

FilterFrame ==
    UNCHANGED <<retry_vars, ranker_vars, run_vars, cache_vars, dedupe_vars,
                encoder_vars, http_vars>>

FilterInit ==
    /\ f_op = "none"
    /\ f_in = <<>>
    /\ f_arg = 0
    /\ f_now = 0
    /\ f_out = <<>>

CallLimitPreprints ==
    /\ FilterFrame
    /\ f_op = "none"
    /\ \E ws \in WorkLists([source : SourceNames], MaxWorks), max_ratio \in MaxRatios :
        /\ f_op' = "limit_preprints"
        /\ f_in' = WithIdentifiers(ws)
        /\ f_arg' = max_ratio
        /\ f_out' = LimitPreprints(WithIdentifiers(ws), max_ratio)
    /\ UNCHANGED f_now

\* The abstracts a candidate may carry: none, empty, blank, text.
AbstractValues == {None, Some(""), Some(" "), Some("text")}

FilterWithoutAbstractMutant(cs) ==
    LET filtered == SelectSeq(cs, LAMBDA c : c.abstract # None /\ c.abstract[1] \notin {"", " "})
    IN [filtered |-> filtered, removed |-> Len(cs) - Len(filtered)]
\* filter_without_abstract(candidates): [c for c in candidates if c.abstract]
FilterWithoutAbstract(cs) ==
    LET filtered == SelectSeq(cs, LAMBDA c : c.abstract # None /\ c.abstract[1] # "")
    IN [filtered |-> filtered, removed |-> Len(cs) - Len(filtered)]

\* filter_without_abstract(candidates) returns the tuple (filtered, removed).
CallFilterWithoutAbstract ==
    /\ FilterFrame
    /\ f_op = "none"
    /\ \E cs \in WorkLists([abstract : AbstractValues], MaxWorks) :
        /\ f_op' = "filter_without_abstract"
        /\ f_in' = WithIdentifiers(cs)
        /\ f_out' = <<FilterWithoutAbstract(WithIdentifiers(cs)).filtered,
                      FilterWithoutAbstract(WithIdentifiers(cs)).removed>>
    /\ UNCHANGED <<f_arg, f_now>>

CallFilterRecent ==
    /\ FilterFrame
    /\ f_op = "none"
    /\ \E ws \in WorkLists([published : PublishedValues], MaxRecentWorks),
          days \in -1..MaxDays, now \in CallInstants :
        /\ f_op' = "filter_recent"
        /\ f_in' = WithIdentifiers(ws)
        /\ f_arg' = days
        /\ f_now' = now
        /\ f_out' = FilterRecent(WithIdentifiers(ws), days, now)

FilterNext ==
    \/ CallLimitPreprints
    \/ CallFilterRecent
    \/ CallFilterWithoutAbstract


\* The works of a list, as a set.
Works(ws) == {ws[i] : i \in 1..Len(ws)}
\* The number of works of a list whose source, in lower case, is a preprint server.
PreprintCount(ws) ==
    Cardinality({i \in 1..Len(ws) :
        ws[i].source \in {"arxiv", "ArXiv", "biorxiv", "bioRxiv", "medrxiv"}})

\* C2: for every max_ratio in [0, 1], 0 included, the preprint fraction of the list
\* limit_preprints returns does not exceed max_ratio.
C2_PreprintFractionCapped ==
    f_op = "limit_preprints" => PreprintCount(f_out) * 10 <= f_arg * Len(f_out)

\* C8 as amended: with days > 0 filter_recent keeps, in input order, exactly the works
\* whose publication instant is present and not earlier than the start (00:00 UTC) of
\* the day of the call minus days days.
C8_RecentFromDayStart ==
    (f_op = "filter_recent" /\ f_arg > 0)
    => LET day_start == TicksPerDay * (f_now \div TicksPerDay)
           kept == {i \in 1..Len(f_in) :
                       /\ f_in[i].published # None
                       /\ f_in[i].published[1] >= day_start - f_arg * TicksPerDay}
       IN /\ Len(f_out) = Cardinality(kept)
          /\ \A j \in 1..Len(f_out) : f_out[j].identifier \in kept /\ f_out[j] = f_in[f_out[j].identifier]
          /\ \A j \in 1..(Len(f_out) - 1) : f_out[j].identifier < f_out[j + 1].identifier

\* A call in the middle of a day that keeps a work published less than days days
\* before the start of that day and removes one without publication instant.
C8_Witness ==
    /\ f_op = "filter_recent" /\ f_arg = 1
    /\ f_now % TicksPerDay # 0
    /\ Len(f_in) = 3 /\ Len(f_out) = 1
    /\ f_in[1].published = None
    /\ f_in[2].published = Some(f_now - (f_now % TicksPerDay) - 2 * TicksPerDay)
    /\ f_in[3].published = Some(f_now - (f_now % TicksPerDay) - TicksPerDay)
    /\ f_out[1].identifier = 3

\* C8 as stated: the cutoff is the instant of the call minus days days.
C8_RecentFromNow ==
    (f_op = "filter_recent" /\ f_arg > 0)
    => \A i \in 1..Len(f_in) :
          f_in[i] \in Works(f_out)
          <=> (f_in[i].published # None /\ f_in[i].published[1] >= f_now - f_arg * TicksPerDay)


(***************************************************************************)
(* pipeline/profile_ranker.py                                              *)
(*                                                                         *)
(* Similarities and venue sub-scores are in tenths, scores in hundredths   *)
(* (score = 0.8 * similarity + 0.2 * if_score is 8 * sim + 2 * if), and    *)
(* thresholds in ten-thousandths, the unit in which a linear interpolation *)
(* between two scores at a whole percentile is exact.                      *)
(***************************************************************************)

\* Bound on the length of the batch given to rank.
MaxBatch == 3
\* Bound on the number of rank calls on one ranker.
MaxRankCalls == 2

\* Scores and configured thresholds, in hundredths, as thresholds.
ToThreshold(hundredths) == hundredths * 100

\* Insertion of x into the ascending sequence s.
RECURSIVE InsertAsc(_, _)
InsertAsc(s, x) ==
    IF s = <<>> THEN <<x>>
    ELSE IF x <= Head(s) THEN <<x>> \o s
    ELSE <<Head(s)>> \o InsertAsc(Tail(s), x)

\* The scores in ascending order.
RECURSIVE SortAsc(_)
SortAsc(s) == IF s = <<>> THEN <<>> ELSE InsertAsc(SortAsc(Tail(s)), Head(s))

\* np.percentile(scores_array, q) with the default linear interpolation, for a whole
\* q in 0..100 and at least one score; the result is a threshold.
Percentile(scores, q) ==
    LET a == SortAsc(scores)
        n == Len(a)
        lo == ((n - 1) * q) \div 100
        rem == ((n - 1) * q) % 100
        hi == IF lo + 1 < n THEN lo + 1 ELSE n - 1
    IN 100 * a[lo + 1] + (a[hi + 1] - a[lo + 1]) * rem

Max(a, b) == IF a >= b THEN a ELSE b

SeparateMutant(must_read_threshold, consider_threshold) == must_read_threshold
\* if must_read_threshold <= consider_threshold: must_read_threshold = consider_threshold + 0.01
Separate(must_read_threshold, consider_threshold) ==
    IF must_read_threshold <= consider_threshold
    THEN consider_threshold + 100
    ELSE must_read_threshold

ComputeThresholdsMutant(thresholds_config, scores) ==
    IF thresholds_config.mode = "fixed"
    THEN [must_read |-> ToThreshold(thresholds_config.must_read),
          consider |-> ToThreshold(thresholds_config.consider),
          mode |-> "fixed"]
    ELSE IF Len(scores) < 1
    THEN [must_read |-> ToThreshold(thresholds_config.must_read),
          consider |-> ToThreshold(thresholds_config.consider),
          mode |-> "fixed"]
    ELSE LET dynamic == thresholds_config.dynamic
             must_read_threshold ==
                 Max(Percentile(scores, dynamic.must_read_percentile),
                     ToThreshold(dynamic.min_must_read))
             consider_threshold ==
                 Max(Percentile(scores, dynamic.consider_percentile),
                     ToThreshold(dynamic.min_consider))
         IN [must_read |-> Separate(must_read_threshold, consider_threshold),
             consider |-> consider_threshold,
             mode |-> "dynamic"]
\* ProfileRanker._compute_thresholds(scores)
ComputeThresholds(thresholds_config, scores) ==
    IF thresholds_config.mode = "fixed"
    THEN [must_read |-> ToThreshold(thresholds_config.must_read),
          consider |-> ToThreshold(thresholds_config.consider),
          mode |-> "fixed"]
    ELSE IF Len(scores) < 2
    THEN [must_read |-> ToThreshold(thresholds_config.must_read),
          consider |-> ToThreshold(thresholds_config.consider),
          mode |-> "fixed"]
    ELSE LET dynamic == thresholds_config.dynamic
             must_read_threshold ==
                 Max(Percentile(scores, dynamic.must_read_percentile),
                     ToThreshold(dynamic.min_must_read))
             consider_threshold ==
                 Max(Percentile(scores, dynamic.consider_percentile),
                     ToThreshold(dynamic.min_consider))
         IN [must_read |-> Separate(must_read_threshold, consider_threshold),
             consider |-> consider_threshold,
             mode |-> "dynamic"]

AssignLabelMutant(score, thresholds) ==
    IF ToThreshold(score) > thresholds.must_read THEN "must_read"
    ELSE IF ToThreshold(score) > thresholds.consider THEN "consider"
    ELSE "ignore"
\* ProfileRanker._assign_label(score, thresholds)
AssignLabel(score, thresholds) ==
    IF ToThreshold(score) >= thresholds.must_read THEN "must_read"
    ELSE IF ToThreshold(score) >= thresholds.consider THEN "consider"
    ELSE "ignore"

\* score = 0.8 * similarity + 0.2 * if_score
BlendScore(similarity, if_score) == 8 * similarity + 2 * if_score

RECURSIVE InsertDescMutant(_, _)
InsertDescMutant(s, w) ==
    IF s = <<>> THEN <<w>>
    ELSE IF w.score >= Head(s).score THEN <<w>> \o s
    ELSE <<Head(s)>> \o InsertDescMutant(Tail(s), w)
\* Insertion of w into a list in descending score order, after the works of equal
\* score already in it.
RECURSIVE InsertDesc(_, _)
InsertDesc(s, w) ==
    IF s = <<>> THEN <<w>>
    ELSE IF w.score > Head(s).score THEN <<w>> \o s
    ELSE <<Head(s)>> \o InsertDesc(Tail(s), w)

\* ranked.sort(key=lambda w: w.score, reverse=True): a stable sort.
RECURSIVE SortByScoreDesc(_)
SortByScoreDesc(s) ==
    IF s = <<>> THEN <<>>
    ELSE InsertDesc(SortByScoreDesc(SubSeq(s, 1, Len(s) - 1)), s[Len(s)])

\* The first pass of rank: the score of every candidate.
ScoresData(candidates) ==
    [i \in 1..Len(candidates) |->
        candidates[i] @@ [score |-> BlendScore(candidates[i].similarity,
                                                candidates[i].if_score)]]

\* settings.scoring.thresholds: the defaults of config/settings.py, and values a
\* configuration file may set (no validator constrains the numbers).
DefaultThresholds ==
    [mode |-> "fixed", must_read |-> 65, consider |-> 45,
     dynamic |-> [must_read_percentile |-> 95, consider_percentile |-> 70,
                  min_must_read |-> 60, min_consider |-> 40]]

ThresholdConfigs ==
    [mode : {"fixed", "dynamic"}, must_read : {45, 65}, consider : {45, 65},
     dynamic : {[must_read_percentile |-> 95, consider_percentile |-> 70,
                 min_must_read |-> 60, min_consider |-> 40],
                [must_read_percentile |-> 95, consider_percentile |-> 70,
                 min_must_read |-> 0, min_consider |-> 0],
                [must_read_percentile |-> 50, consider_percentile |-> 50,
                 min_must_read |-> 0, min_consider |-> 0],
                [must_read_percentile |-> 70, consider_percentile |-> 95,
                 min_must_read |-> 40, min_consider |-> 60]}]

\* What the index search and the journal scorer yield for one candidate: the
\* similarity to the nearest profile vector and the venue sub-score, in tenths.
CandidateKinds == [similarity : {-2, 3, 8, 12}, if_score : {2, 10}]

\* The batches of the calls of rank: any batch for the first call of a ranker; an
\* empty batch, one candidate or two candidates for the calls after it.
LaterBatches ==
    {<<>>,
     <<[similarity |-> 8, if_score |-> 2]>>,
     <<[similarity |-> 3, if_score |-> 10], [similarity |-> 8, if_score |-> 2]>>}
Batches(n) == IF n = 0 THEN WorkLists(CandidateKinds, MaxBatch) ELSE LaterBatches

RankerFrame ==
    UNCHANGED <<retry_vars, filter_vars, run_vars, cache_vars, dedupe_vars,
                encoder_vars, http_vars>>

RankerInit ==
    /\ k_pc = "idle"
    /\ k_calls = 0
    /\ k_cfg = DefaultThresholds
    /\ k_candidates = <<>>
    /\ k_ranked = <<>>
    /\ last_computed_thresholds = None

\* The ranker is constructed with any settings.
RankerInitAny ==
    /\ k_pc = "idle"
    /\ k_calls = 0
    /\ k_cfg \in ThresholdConfigs
    /\ k_candidates = <<>>
    /\ k_ranked = <<>>
    /\ last_computed_thresholds = None

RankBatchMutant(thresholds_config, batch) ==
    LET scores_data == ScoresData(batch)
        all_scores == [i \in 1..Len(scores_data) |-> scores_data[i].score]
        computed_thresholds == ComputeThresholds(thresholds_config, all_scores)
        labelled == [i \in 1..Len(scores_data) |->
                       scores_data[i] @@
                       [label |-> AssignLabel(scores_data[i].score,
                                              ComputeThresholds(thresholds_config,
                                                                SubSeq(all_scores, 1, i)))]]
    IN [computed_thresholds |-> computed_thresholds, ranked |-> SortByScoreDesc(labelled)]
\* The two passes of rank on a non-empty batch: the thresholds of the batch and the
\* labelled works in descending score order.
RankBatch(thresholds_config, batch) ==
    LET scores_data == ScoresData(batch)
        all_scores == [i \in 1..Len(scores_data) |-> scores_data[i].score]
        computed_thresholds == ComputeThresholds(thresholds_config, all_scores)
        labelled == [i \in 1..Len(scores_data) |->
                       scores_data[i] @@
                       [label |-> AssignLabel(scores_data[i].score, computed_thresholds)]]
    IN [computed_thresholds |-> computed_thresholds, ranked |-> SortByScoreDesc(labelled)]

\* rank(candidates) returns.
Rank ==
    /\ RankerFrame
    /\ k_calls < MaxRankCalls
    /\ \E cs \in Batches(k_calls) :
        /\ k_candidates' = WithIdentifiers(cs)
        /\ IF cs = <<>>
           THEN /\ k_ranked' = <<>>
                /\ UNCHANGED last_computed_thresholds
           ELSE /\ last_computed_thresholds' =
                       Some(RankBatch(k_cfg, WithIdentifiers(cs)).computed_thresholds)
                /\ k_ranked' = RankBatch(k_cfg, WithIdentifiers(cs)).ranked
    /\ k_pc' = "ranked"
    /\ k_calls' = k_calls + 1
    /\ UNCHANGED k_cfg

\* rank(candidates) on a non-empty batch: vectorizer.encode or index.search raises,
\* before any score is computed.
RankRaises ==
    /\ RankerFrame
    /\ k_calls < MaxRankCalls
    /\ \E cs \in Batches(k_calls) :
        /\ cs # <<>>
        /\ k_candidates' = WithIdentifiers(cs)
    /\ k_ranked' = <<>>
    /\ k_pc' = "raised"
    /\ k_calls' = k_calls + 1
    /\ UNCHANGED <<k_cfg, last_computed_thresholds>>

RankerNext ==
    \/ Rank
    \/ RankRaises

\* C1: after every rank call on a non-empty batch, whatever the configured values
\* and the mode, the computed thresholds satisfy must_read > consider.
C1_MustReadAboveConsider ==
    (k_pc = "ranked" /\ k_candidates # <<>>)
    => /\ last_computed_thresholds # None
       /\ last_computed_thresholds[1].must_read > last_computed_thresholds[1].consider

\* The scores of a batch, as the first pass of rank computes them.
AllScores(batch) == [i \in 1..Len(batch) |-> BlendScore(batch[i].similarity, batch[i].if_score)]

\* C12: after any sequence of rank calls on one ranker (batches of any size, empty
\* ones included), computed_thresholds is the thresholds computed for the batch of
\* the most recent call, never those of an earlier call.
\* (For an empty batch the thresholds computed are the configured ones of the
\* small-batch fallback; no thresholds at all is accepted there too.)
C12_ThresholdsOfLastCall ==
    k_pc = "ranked"
    => \/ last_computed_thresholds = Some(ComputeThresholds(k_cfg, AllScores(k_candidates)))
       \/ k_candidates = <<>> /\ last_computed_thresholds = None

\* C13: rank returns exactly one RankedWork per input candidate (same identifiers,
\* same length), in non-increasing score order, works of equal score in their input
\* order. (The identifier of a candidate is its position in the input.)
C13_RankIsStableSortedPermutation ==
    k_pc = "ranked"
    => /\ Len(k_ranked) = Len(k_candidates)
       /\ \A c \in 1..Len(k_candidates) :
             Cardinality({i \in 1..Len(k_ranked) :
                             k_ranked[i].identifier = k_candidates[c].identifier}) = 1
       /\ \A i \in 1..Len(k_ranked) :
             LET c == k_candidates[k_ranked[i].identifier]
             IN /\ k_ranked[i].similarity = c.similarity
                /\ k_ranked[i].if_score = c.if_score
       /\ \A i, j \in 1..Len(k_ranked) :
             i < j => \/ k_ranked[i].score > k_ranked[j].score
                      \/ /\ k_ranked[i].score = k_ranked[j].score
                         /\ k_ranked[i].identifier < k_ranked[j].identifier

\* A batch given in ascending score order with two works of equal score.
C13_Witness ==
    /\ k_pc = "ranked"
    /\ Len(k_candidates) = 3
    /\ <<k_ranked[1].identifier, k_ranked[2].identifier, k_ranked[3].identifier>> = <<2, 3, 1>>
    /\ k_ranked[1].score = k_ranked[2].score
    /\ k_ranked[2].score > k_ranked[3].score

\* C14: every work rank returns is labelled must_read if its score is at least the
\* must_read threshold, else consider if its score is at least the consider
\* threshold, else ignore, the thresholds being those computed_thresholds exposes for
\* the batch. (Scores are in hundredths, thresholds in ten-thousandths.)
C14_LabelsFollowThresholds ==
    (k_pc = "ranked" /\ k_ranked # <<>>)
    => /\ last_computed_thresholds # None
       /\ \A i \in 1..Len(k_ranked) :
             LET t == last_computed_thresholds[1]
                 score == 100 * k_ranked[i].score
             IN /\ k_ranked[i].label = "must_read" <=> score >= t.must_read
                /\ k_ranked[i].label = "consider"
                      <=> (score < t.must_read /\ score >= t.consider)
                /\ k_ranked[i].label = "ignore"
                      <=> (score < t.must_read /\ score < t.consider)

\* A batch whose works get the three labels, one of them with a score equal to the
\* consider threshold.
C14_Witness ==
    /\ k_pc = "ranked"
    /\ Len(k_ranked) = 3
    /\ last_computed_thresholds # None
    /\ last_computed_thresholds[1].mode = "dynamic"
    /\ <<k_ranked[1].label, k_ranked[2].label, k_ranked[3].label>>
          = <<"must_read", "consider", "ignore">>
    /\ 100 * k_ranked[2].score = last_computed_thresholds[1].consider

\* The configured thresholds, reported as fixed.
ConfiguredFixed(thresholds_config) ==
    [must_read |-> 100 * thresholds_config.must_read,
     consider |-> 100 * thresholds_config.consider,
     mode |-> "fixed"]

\* C15: in dynamic mode a batch of fewer than 2 scores yields exactly the configured
\* fixed must_read and consider values and reports mode "fixed"; a batch of 2 or more
\* scores reports mode "dynamic".
C15_SmallBatchFallsBackToFixed ==
    k_cfg.mode = "dynamic"
    => /\ ComputeThresholds(k_cfg, <<>>) = ConfiguredFixed(k_cfg)
       /\ (k_pc = "ranked" /\ Len(k_candidates) = 1)
             => last_computed_thresholds = Some(ConfiguredFixed(k_cfg))
       /\ (k_pc = "ranked" /\ Len(k_candidates) >= 2)
             => /\ last_computed_thresholds # None
                /\ last_computed_thresholds[1].mode = "dynamic"

\* A one-candidate batch ranked in dynamic mode after a batch of two: the percentile
\* of its single score would have been another threshold than the configured one.
C15_Witness ==
    /\ k_cfg.mode = "dynamic"
    /\ k_pc = "ranked"
    /\ k_calls = 2
    /\ Len(k_candidates) = 1
    /\ last_computed_thresholds = Some(ConfiguredFixed(k_cfg))
    /\ Percentile(AllScores(k_candidates), k_cfg.dynamic.consider_percentile)
          # 100 * k_cfg.consider

\* A similarity, in tenths, clipped to [0, 1].
Clipped(similarity) == IF similarity < 0 THEN 0 ELSE IF similarity > 10 THEN 10 ELSE similarity

\* C16: the score of every ranked work is 0.8 * s + 0.2 * venue_quality with s the
\* nearest-neighbour similarity clipped to [0, 1] (a raw similarity below 0 counts as
\* 0, one above 1 as 1), so that with venue_quality in [0, 1] the score is in [0, 1].
\* (Similarities and venue qualities are in tenths, scores in hundredths.)
C16_ScoreUsesClippedSimilarity ==
    k_pc = "ranked"
    => \A i \in 1..Len(k_ranked) :
          /\ k_ranked[i].score = 8 * Clipped(k_ranked[i].similarity) + 2 * k_ranked[i].if_score
          /\ k_ranked[i].score >= 0
          /\ k_ranked[i].score <= 100


(***************************************************************************)
(* The deduplication engine behind `dedupe.filter(candidates)` of          *)
(* WatchPipeline.run (watch.py, stage 6), following its contract: a        *)
(* candidate is dropped when its fingerprint is already recorded, and the  *)
(* fingerprints of the candidates kept are recorded.                       *)
(***************************************************************************)

\* Bound on the length of a batch given to filter.
MaxDedupeBatch == 2

\* DOIs and titles as the sources deliver them, with their normal forms: a DOI in
\* lower case; a title in lower case, whitespace collapsed, punctuation stripped.
DoiLower(doi) ==
    CASE doi = "10.1/A" -> "10.1/a"
      [] OTHER -> doi
NormalizeTitle(title) ==
    CASE title = "Deep Nets" -> "deep nets"
      [] title = "deep  nets!" -> "deep nets"
      [] title = "Graphs" -> "graphs"
      [] OTHER -> title

FingerprintMutant(c) ==
    IF c.doi # None THEN <<"doi", c.doi[1]>> ELSE <<"title", NormalizeTitle(c.title)>>
\* The dedup key of a candidate: its DOI if present, otherwise its normalized title.
Fingerprint(c) ==
    IF c.doi # None THEN <<"doi", DoiLower(c.doi[1])>> ELSE <<"title", NormalizeTitle(c.title)>>

\* Candidates: a paper with a DOI, the same DOI in another case, two DOI-less
\* spellings of one title, a DOI-less other title, a paper of the library.
DedupeKinds ==
    {[doi |-> Some("10.1/a"), title |-> "Deep Nets"],
     [doi |-> Some("10.1/A"), title |-> "Graphs"],
     [doi |-> None, title |-> "Deep Nets"],
     [doi |-> None, title |-> "deep  nets!"],
     [doi |-> None, title |-> "Graphs"],
     [doi |-> Some("10.2/b"), title |-> "Graphs"]}

\* The identities of the library items, known before any candidate is seen.
LibraryFingerprints == {<<"doi", "10.2/b">>}

RECURSIVE DedupeLoopMutant(_, _)
DedupeLoopMutant(cs, state) ==
    IF cs = <<>> THEN state
    ELSE LET fp == Fingerprint(Head(cs))
         IN IF fp \in state.known
            THEN DedupeLoopMutant(Tail(cs), state)
            ELSE DedupeLoopMutant(Tail(cs), [known |-> state.known,
                                             kept |-> Append(state.kept, Head(cs))])
\* filter, candidate by candidate: `state` is the fingerprints known so far and the
\* candidates kept so far.
RECURSIVE DedupeLoop(_, _)
DedupeLoop(cs, state) ==
    IF cs = <<>> THEN state
    ELSE LET fp == Fingerprint(Head(cs))
         IN IF fp \in state.known
            THEN DedupeLoop(Tail(cs), state)
            ELSE DedupeLoop(Tail(cs), [known |-> state.known \cup {fp},
                                       kept |-> Append(state.kept, Head(cs))])

DedupeFrame ==
    UNCHANGED <<retry_vars, filter_vars, ranker_vars, run_vars, cache_vars,
                encoder_vars, http_vars>>

DedupeInit ==
    /\ d_recorded = LibraryFingerprints
    /\ d_in = <<>>
    /\ d_out = <<>>

\* candidates = dedupe.filter(candidates)
DedupeFilter ==
    /\ DedupeFrame
    /\ \E cs \in WorkLists(DedupeKinds, MaxDedupeBatch) :
          LET final == DedupeLoop(cs, [known |-> d_recorded, kept |-> <<>>])
          IN /\ d_in' = cs
             /\ d_out' = final.kept
             /\ d_recorded' = final.known

DedupeNext == DedupeFilter

\* The fingerprint as the claim words it: the case-normalized DOI, or else the hash
\* of the normalized title.
ClaimedFingerprint(c) ==
    IF c.doi = None THEN <<"title", NormalizeTitle(c.title)>>
    ELSE <<"doi", DoiLower(c.doi[1])>>

\* C20: whatever the batch and the calls made before, filter returns no candidate
\* whose fingerprint was recorded before the call and no two candidates with the same
\* fingerprint.
C20_NoKnownOrRepeatedFingerprint ==
    [][/\ \A i \in 1..Len(d_out') : ClaimedFingerprint(d_out'[i]) \notin d_recorded
       /\ \A i, j \in 1..Len(d_out') :
             i # j => ClaimedFingerprint(d_out'[i]) # ClaimedFingerprint(d_out'[j])
      ]_vars

\* A later call whose batch holds a known DOI in another case and a new title: only
\* the new title comes back.
C20_Witness ==
    /\ d_in = <<[doi |-> Some("10.1/A"), title |-> "Graphs"],
                [doi |-> None, title |-> "deep  nets!"]>>
    /\ d_out = <<[doi |-> None, title |-> "deep  nets!"]>>
    /\ <<"doi", "10.1/a">> \in d_recorded


\* C21: across any sequence of filter calls the recorded fingerprints only grow:
\* what was recorded before a call is recorded after it, and the fingerprint of every
\* candidate a call returns is recorded when the call completes.
C21_RecordedFingerprintsGrow ==
    [][/\ d_recorded \subseteq d_recorded'
       /\ \A i \in 1..Len(d_out') : ClaimedFingerprint(d_out'[i]) \in d_recorded'
      ]_vars

\* After several calls: the library identity, a DOI recorded by an earlier call and
\* the title the last call returned are all recorded.
C21_Witness ==
    /\ d_in = <<[doi |-> None, title |-> "Graphs"]>>
    /\ d_out = d_in
    /\ d_recorded = LibraryFingerprints \cup {<<"doi", "10.1/a">>, <<"title", "graphs">>}


(***************************************************************************)
(* pipeline/watch.py: WatchPipeline.run, one action per stage.             *)
(*                                                                         *)
(* The collaborators (ingestor, fetcher, enricher, dedupe engine, interest *)
(* ranker, summarizer, translator, caches) are the environment: each call  *)
(* either raises or returns one of the values its contract allows.         *)
(***************************************************************************)

\* Bound on the number of candidates the fetcher returns.
MaxFetched == 2

StageOrderMutant ==
    <<"ensure_profile", "sync", "analyze_profile", "fetch", "enrich", "abstract_filter",
      "dedupe", "interest", "rank", "recency", "preprint_cap", "top_k", "summaries",
      "translate", "cleanup">>
\* The statements of run() in program order.
StageOrder ==
    <<"ensure_profile", "sync", "analyze_profile", "fetch", "enrich", "dedupe",
      "abstract_filter", "interest", "rank", "recency", "preprint_cap", "top_k",
      "summaries", "translate", "cleanup">>

\* The statement that follows a stage: the next stage, or `return result`.
StageAfter(stage) ==
    LET i == CHOOSE j \in 1..Len(StageOrder) : StageOrder[j] = stage
    IN IF i = Len(StageOrder) THEN "returned" ELSE StageOrder[i + 1]

CaughtMutant(stage, point) == stage \in {"interest", "rank"}
\* The try/except blocks of run()'s helpers: the exceptions of these points are
\* caught where they occur; every other exception leaves run().
Caught(stage, point) ==
    \/ stage = "interest"
    \/ stage = "analyze_profile" /\ point = "insights"
    \/ stage = "enrich" /\ point = "create_llm_client"

\* The candidates the sources may yield: a recent preprint, a recent journal paper,
\* a recent journal paper without abstract, an old preprint.
\* An instant of the day run() is called.
RecentInstant == (MaxDays + 1) * TicksPerDay

PipelineKinds ==
    {[source |-> "arxiv", abstract |-> Some("text"), published |-> Some(RecentInstant),
      similarity |-> 8, if_score |-> 2]}
    \cup {[source |-> "crossref", abstract |-> a, published |-> Some(RecentInstant),
           similarity |-> 3, if_score |-> 10] : a \in {None, Some("text")}}
    \cup {[source |-> "arxiv", abstract |-> Some("text"), published |-> Some(0),
           similarity |-> 3, if_score |-> 2]}

\* The configuration a run has when nothing is overridden.
DefaultRunConfig ==
    [llm_enabled |-> TRUE, scraper_enabled |-> TRUE, interests_enabled |-> FALSE,
     profile_exists |-> TRUE, require_abstract |-> TRUE, generate_summaries |-> TRUE,
     translate_titles |-> FALSE, top_k |-> 1, recent_days |-> 1, max_preprint_ratio |-> 9,
     sources |-> "any"]

\* A run over five new, recent candidates with abstracts required, nothing optional
\* enabled and room for all of them in the result.
ScenarioRunConfig ==
    [llm_enabled |-> FALSE, scraper_enabled |-> FALSE, interests_enabled |-> FALSE,
     profile_exists |-> TRUE, require_abstract |-> TRUE, generate_summaries |-> FALSE,
     translate_titles |-> FALSE, top_k |-> 5, recent_days |-> 1, max_preprint_ratio |-> 9,
     sources |-> "scenario"]

\* What the sources deliver in that run: two candidates of a preprint source and
\* three of a journal source, one of the five without abstract, with any similarity
\* to the profile.
ScenarioBatches ==
    {[i \in 1..5 |->
        [source |-> IF i \in {1, 4} THEN "arxiv" ELSE "crossref",
         abstract |-> IF i = missing THEN None ELSE Some("text"),
         published |-> Some(RecentInstant),
         similarity |-> sims[i],
         if_score |-> IF i \in {1, 4} THEN 6 ELSE 3]] :
     missing \in {1, 2}, sims \in [1..5 -> {3, 8}]}

\* A run over two new, recent journal papers with abstracts, nothing optional enabled
\* and no limit on the length of the result.
RestartRunConfig ==
    [llm_enabled |-> FALSE, scraper_enabled |-> FALSE, interests_enabled |-> FALSE,
     profile_exists |-> TRUE, require_abstract |-> TRUE, generate_summaries |-> FALSE,
     translate_titles |-> FALSE, top_k |-> 0, recent_days |-> 1, max_preprint_ratio |-> 9,
     sources |-> "restart"]

\* What the sources deliver in that run, every time they are asked.
RestartBatch ==
    <<[source |-> "crossref", abstract |-> Some("text"), published |-> Some(RecentInstant),
       similarity |-> 8, if_score |-> 10],
      [source |-> "crossref", abstract |-> Some("text"), published |-> Some(RecentInstant),
       similarity |-> 3, if_score |-> 10]>>

\* The batches fetcher.fetch_all() may return under a configuration.
FetchedBatches(cfg) ==
    CASE cfg.sources = "scenario" -> ScenarioBatches
      [] cfg.sources = "restart" -> {RestartBatch}
      [] OTHER -> WorkLists(PipelineKinds, MaxFetched)

\* The titles of the candidates of a batch, by position; none of them has a DOI.
PaperTitles == <<"paper one", "paper two", "paper three", "paper four", "paper five">>

\* The candidates as run() receives them from the fetcher.
Fetched(batch) ==
    [i \in 1..Len(batch) |->
        [doi |-> None, title |-> PaperTitles[i]] @@ WithIdentifiers(batch)[i]]

\* The fingerprints the storage may hold of the candidates of earlier runs: any of
\* the first two titles, or none in the runs over new candidates.
SeenFingerprints(cfg) ==
    IF cfg.sources = "any"
    THEN SUBSET {<<"title", PaperTitles[1]>>, <<"title", PaperTitles[2]>>}
    ELSE {{}}

RunSwitches ==
    {"llm_enabled", "scraper_enabled", "interests_enabled", "require_abstract",
     "generate_summaries", "translate_titles"}

\* The settings and configurations of a run: the default with at most two switches
\* changed and either value of top_k, the profile present; the default with the
\* profile missing; the five-candidate run, with room for all or for two of them;
\* and the run over two new journal papers.
RunConfigs ==
    {c \in [llm_enabled : BOOLEAN, scraper_enabled : BOOLEAN, interests_enabled : BOOLEAN,
            profile_exists : {TRUE}, require_abstract : BOOLEAN,
            generate_summaries : BOOLEAN, translate_titles : BOOLEAN, top_k : {0, 1},
            recent_days : {1}, max_preprint_ratio : {9}, sources : {"any"}] :
        Cardinality({s \in RunSwitches : c[s] # DefaultRunConfig[s]}) <= 2}
    \cup {[DefaultRunConfig EXCEPT !.profile_exists = FALSE]}
    \cup {ScenarioRunConfig, [ScenarioRunConfig EXCEPT !.top_k = 2], RestartRunConfig}

EmptyResult ==
    [ranked_works |-> <<>>, interest_works |-> <<>>, researcher_profile |-> None,
     overall_summaries |-> {}, summarized |-> {}, translated |-> {},
     computed_thresholds |-> None,
     stats |-> [candidates_fetched |-> 0, candidates_after_dedupe |-> 0,
                candidates_after_abstract_filter |-> 0, candidates_after_recent_filter |-> 0,
                abstracts_enriched |-> 0, summaries_generated |-> 0,
                interest_papers_selected |-> 0]]

\* run() touches none of the other components' state but the persisted fingerprints,
\* which only its deduplication stage writes.
RunFrame ==
    UNCHANGED <<retry_vars, filter_vars, ranker_vars, cache_vars, d_in, d_out,
                encoder_vars, http_vars>>

RunInit ==
    /\ p_pc = "ensure_profile"
    /\ p_cfg = DefaultRunConfig
    /\ p_trace = <<>>
    /\ p_failure = None
    /\ p_caught = {}
    /\ p_events = <<>>
    /\ p_llm_client = None
    /\ p_candidates = <<>>
    /\ p_ranked = <<>>
    /\ p_result = EmptyResult

\* run() is called on a pipeline constructed with any settings and configuration.
RunInitAny ==
    /\ p_pc = "ensure_profile"
    /\ p_cfg \in RunConfigs
    /\ p_trace = <<>>
    /\ p_failure = None
    /\ p_caught = {}
    /\ p_events = <<>>
    /\ p_llm_client = None
    /\ p_candidates = <<>>
    /\ p_ranked = <<>>
    /\ p_result = EmptyResult

\* The storage when run() is called: it may have seen candidates before.
StorageInitAny ==
    /\ d_recorded \in SeenFingerprints(p_cfg)
    /\ d_in = <<>>
    /\ d_out = <<>>

\* The stage is entered.
Enter(stage) ==
    /\ RunFrame
    /\ p_pc = stage
    /\ p_trace' = Append(p_trace, stage)
    /\ UNCHANGED p_cfg
    /\ IF stage = "dedupe" THEN TRUE ELSE UNCHANGED d_recorded

\* The stage's condition is false: run() goes on to the next statement.
Skip(stage) ==
    /\ RunFrame
    /\ p_pc = stage
    /\ p_pc' = StageAfter(stage)
    /\ UNCHANGED <<p_cfg, p_trace, p_failure, p_caught, p_events, p_llm_client, p_candidates,
                   p_ranked, p_result>>
    /\ UNCHANGED d_recorded

\* The stage is over and run() goes on to the next statement.
Advance(stage) ==
    /\ p_pc' = StageAfter(stage)
    /\ UNCHANGED p_failure

\* An exception raised at a point of a stage: it is caught there, and the stage ends
\* with the degraded outcome, or it leaves run().
Raise(stage, point, degraded) ==
    IF Caught(stage, point)
    THEN /\ p_caught' = p_caught \cup {[stage |-> stage, point |-> point]}
         /\ degraded
         /\ Advance(stage)
    ELSE /\ p_pc' = "raised"
         /\ p_failure' = Some([stage |-> stage, point |-> point])
         /\ UNCHANGED <<p_caught, p_llm_client, p_candidates, p_ranked, p_result>>

\* progress(stage_name, msg), once for every name of `names`, while `stage` runs:
\* on_progress receives the calls in this order.
Emit(stage, names) ==
    p_events' = p_events \o [i \in 1..Len(names) |-> [stage |-> stage, name |-> names[i]]]

\* self._get_llm_client() returns: the client, created if there was none.
GotLLMClient == p_llm_client' = Some("client")

\* 1. _ensure_profile_exists: nothing to do when the index file and the store exist;
\* otherwise _build_profile(full=True), in which ingestor.run(full=True) may raise
\* and, once it has returned, the construction of the vectorizer reads
\* settings.embedding.input_type, an attribute EmbeddingConfig does not have.
EnsureProfile ==
    /\ Enter("ensure_profile")
    /\ \/ /\ p_cfg.profile_exists
          /\ Emit("ensure_profile", <<>>)
          /\ Advance("ensure_profile")
          /\ UNCHANGED <<p_caught, p_llm_client, p_candidates, p_ranked, p_result>>
       \/ /\ ~p_cfg.profile_exists
          /\ Emit("ensure_profile", <<>>)
          /\ Raise("ensure_profile", "full_ingest",
                   UNCHANGED <<p_llm_client, p_candidates, p_ranked, p_result>>)
       \/ /\ ~p_cfg.profile_exists
          /\ Emit("ensure_profile", <<>>)
          /\ Raise("ensure_profile", "vectorizer",
                   UNCHANGED <<p_llm_client, p_candidates, p_ranked, p_result>>)

\* 2. ingestor.run(full=False)
Sync ==
    /\ Enter("sync")
    /\ Emit("sync", <<"sync">>)
    /\ \/ Raise("sync", "ingest", UNCHANGED <<p_llm_client, p_candidates, p_ranked, p_result>>)
       \/ /\ Advance("sync")
          /\ UNCHANGED <<p_caught, p_llm_client, p_candidates, p_ranked, p_result>>

\* 3. _analyze_profile, when settings.llm.enabled.
AnalyzeProfile ==
    \/ ~p_cfg.llm_enabled /\ Skip("analyze_profile")
    \/ /\ p_cfg.llm_enabled
       /\ Enter("analyze_profile")
       /\ \/ /\ Emit("analyze_profile", <<"profile">>)
             /\ Raise("analyze_profile", "get_all_items",
                      UNCHANGED <<p_llm_client, p_candidates, p_ranked, p_result>>)
          \/ \* no items (None), or the cached analysis
             /\ Emit("analyze_profile", <<"profile", "profile">>)
             /\ \E profile \in {None, Some("cached")} :
                    p_result' = [p_result EXCEPT !.researcher_profile = profile]
             /\ Advance("analyze_profile")
             /\ UNCHANGED <<p_caught, p_llm_client, p_candidates, p_ranked>>
          \/ /\ p_llm_client = None
             /\ Emit("analyze_profile", <<"profile", "profile">>)
             /\ Raise("analyze_profile", "create_llm_client",
                      UNCHANGED <<p_llm_client, p_candidates, p_ranked, p_result>>)
          \/ /\ GotLLMClient
             /\ Emit("analyze_profile", <<"profile", "profile", "profile", "profile", "profile">>)
             /\ Raise("analyze_profile", "insights",
                      /\ p_result' = [p_result EXCEPT !.researcher_profile = Some("statistics")]
                      /\ UNCHANGED <<p_candidates, p_ranked>>)
          \/ /\ GotLLMClient
             /\ Emit("analyze_profile", <<"profile", "profile", "profile", "profile", "profile">>)
             /\ p_result' = [p_result EXCEPT !.researcher_profile = Some("insights")]
             /\ Advance("analyze_profile")
             /\ UNCHANGED <<p_caught, p_candidates, p_ranked>>

\* 4. fetcher.fetch_all()
Fetch ==
    /\ Enter("fetch")
    /\ \/ /\ Emit("fetch", <<"fetch">>)
          /\ Raise("fetch", "fetch_all",
                   UNCHANGED <<p_llm_client, p_candidates, p_ranked, p_result>>)
       \/ /\ \E batch \in FetchedBatches(p_cfg) :
               /\ p_candidates' = Fetched(batch)
               /\ p_result' = [p_result EXCEPT !.stats.candidates_fetched = Len(batch)]
          /\ Emit("fetch", <<"fetch", "fetch">>)
          /\ Advance("fetch")
          /\ UNCHANGED <<p_caught, p_llm_client, p_ranked>>

\* The candidates with the missing abstracts filled in.
Enriched(cs) ==
    [i \in 1..Len(cs) |->
        IF cs[i].abstract = None THEN [cs[i] EXCEPT !.abstract = Some("text")] ELSE cs[i]]

TruncateMutant(ws, top_k) == IF top_k # 0 /\ Len(ws) > top_k + 1 THEN SubSeq(ws, 1, top_k) ELSE ws
\* if top_k and len(ranked) > top_k: ranked = ranked[:top_k]
Truncate(ws, top_k) == IF top_k # 0 /\ Len(ws) > top_k THEN SubSeq(ws, 1, top_k) ELSE ws

\* The identifiers of the works of a list.
Identifiers(ws) == {ws[i].identifier : i \in 1..Len(ws)}

\* 5. _enrich_abstracts, when settings.sources.scraper.enabled (use_llm_fallback holds
\* its default, True).
Enrich ==
    \/ ~p_cfg.scraper_enabled /\ Skip("enrich")
    \/ /\ p_cfg.scraper_enabled
       /\ Enter("enrich")
       /\ \/ \* creating the LLM client fails, the enricher works without it
             /\ p_cfg.llm_enabled /\ p_llm_client = None
             /\ Emit("enrich", <<"enrich", "enrich">>)
             /\ Raise("enrich", "create_llm_client",
                      /\ \E filled \in {p_candidates, Enriched(p_candidates)} :
                            /\ p_candidates' = filled
                            /\ p_result' = [p_result EXCEPT !.stats.abstracts_enriched =
                                  Cardinality({i \in 1..Len(filled) :
                                                  filled[i] # p_candidates[i]})]
                      /\ UNCHANGED <<p_llm_client, p_ranked>>)
          \/ /\ IF p_cfg.llm_enabled THEN GotLLMClient ELSE UNCHANGED p_llm_client
             /\ Emit("enrich", <<"enrich">>)
             /\ Raise("enrich", "enrich", UNCHANGED <<p_candidates, p_ranked, p_result>>)
          \/ /\ IF p_cfg.llm_enabled THEN GotLLMClient ELSE UNCHANGED p_llm_client
             /\ \E filled \in {p_candidates, Enriched(p_candidates)} :
                   /\ p_candidates' = filled
                   /\ p_result' = [p_result EXCEPT !.stats.abstracts_enriched =
                         Cardinality({i \in 1..Len(filled) : filled[i] # p_candidates[i]})]
             /\ Emit("enrich", <<"enrich", "enrich">>)
             /\ Advance("enrich")
             /\ UNCHANGED <<p_caught, p_ranked>>

\* 6. dedupe = DedupeEngine(storage); candidates = dedupe.filter(candidates): the
\* engine removes the candidates whose fingerprint the storage holds and records the
\* fingerprints of those it keeps; a call that raises records nothing.
Dedupe ==
    /\ Enter("dedupe")
    /\ \/ /\ Raise("dedupe", "filter",
                   UNCHANGED <<p_llm_client, p_candidates, p_ranked, p_result>>)
          /\ UNCHANGED d_recorded
          /\ Emit("dedupe", <<"dedupe">>)
       \/ /\ LET final == DedupeLoop(p_candidates, [known |-> d_recorded, kept |-> <<>>])
             IN /\ p_candidates' = final.kept
                /\ d_recorded' = final.known
                /\ p_result' = [p_result EXCEPT
                      !.stats.candidates_after_dedupe = Len(final.kept)]
          /\ Emit("dedupe", <<"dedupe", "dedupe">>)
          /\ Advance("dedupe")
          /\ UNCHANGED <<p_caught, p_llm_client, p_ranked>>

\* 7. filter_without_abstract, when config.require_abstract.
AbstractFilter ==
    \/ ~p_cfg.require_abstract /\ Skip("abstract_filter")
    \/ /\ p_cfg.require_abstract
       /\ Enter("abstract_filter")
       /\ p_candidates' = FilterWithoutAbstract(p_candidates).filtered
       /\ p_result' = [p_result EXCEPT !.stats.candidates_after_abstract_filter =
                          Len(FilterWithoutAbstract(p_candidates).filtered)]
       /\ Emit("abstract_filter",
               IF FilterWithoutAbstract(p_candidates).removed > 0 THEN <<"filter">> ELSE <<>>)
       /\ Advance("abstract_filter")
       /\ UNCHANGED <<p_caught, p_llm_client, p_ranked>>

\* 8. _select_interest_papers, when interests are enabled and described.
Interest ==
    \/ ~p_cfg.interests_enabled /\ Skip("interest")
    \/ /\ p_cfg.interests_enabled
       /\ Enter("interest")
       /\ \/ \* no LLM client: return []
             /\ ~p_cfg.llm_enabled
             /\ Emit("interest", <<"interest">>)
             /\ Advance("interest")
             /\ UNCHANGED <<p_caught, p_llm_client, p_candidates, p_ranked, p_result>>
          \/ /\ p_cfg.llm_enabled /\ p_llm_client = None
             /\ Emit("interest", <<"interest", "interest">>)
             /\ Raise("interest", "create_llm_client",
                      UNCHANGED <<p_llm_client, p_candidates, p_ranked, p_result>>)
          \/ \* with a client, the construction of the vectorizer reads
             \* settings.embedding.input_type, which EmbeddingConfig does not have:
             \* the AttributeError is caught and the selection is []
             /\ p_cfg.llm_enabled /\ GotLLMClient
             /\ Emit("interest", <<"interest", "interest">>)
             /\ Raise("interest", "vectorizer", UNCHANGED <<p_candidates, p_ranked, p_result>>)

\* 9. ProfileRanker(...).rank(candidates), with the default thresholds.
RankStage ==
    /\ Enter("rank")
    /\ Emit("rank", <<"rank">>)
    /\ \/ Raise("rank", "load_index", UNCHANGED <<p_llm_client, p_candidates, p_ranked, p_result>>)
       \/ /\ p_candidates # <<>>
          /\ Raise("rank", "encode", UNCHANGED <<p_llm_client, p_candidates, p_ranked, p_result>>)
       \/ /\ IF p_candidates = <<>>
             THEN /\ p_ranked' = <<>>
                  /\ p_result' = p_result
             ELSE /\ p_ranked' = RankBatch(DefaultThresholds, p_candidates).ranked
                  /\ p_result' = [p_result EXCEPT !.computed_thresholds =
                        Some(RankBatch(DefaultThresholds, p_candidates).computed_thresholds)]
          /\ Advance("rank")
          /\ UNCHANGED <<p_caught, p_llm_client, p_candidates>>

\* 10a. filter_recent(ranked, days=config.recent_days)
Recency ==
    /\ Enter("recency")
    /\ Emit("recency", <<>>)
    /\ \E now \in CallInstants :
          /\ p_ranked' = FilterRecent(p_ranked, p_cfg.recent_days, now)
          /\ p_result' = [p_result EXCEPT !.stats.candidates_after_recent_filter =
                             Len(FilterRecent(p_ranked, p_cfg.recent_days, now))]
    /\ Advance("recency")
    /\ UNCHANGED <<p_caught, p_llm_client, p_candidates>>

\* 10b. limit_preprints(ranked, max_ratio=config.max_preprint_ratio)
PreprintCap ==
    /\ Enter("preprint_cap")
    /\ Emit("preprint_cap", <<>>)
    /\ p_ranked' = LimitPreprints(p_ranked, p_cfg.max_preprint_ratio)
    /\ Advance("preprint_cap")
    /\ UNCHANGED <<p_caught, p_llm_client, p_candidates, p_result>>

\* 11. the top_k limit; result.ranked_works = ranked
TopK ==
    /\ Enter("top_k")
    /\ Emit("top_k", <<"rank">>)
    /\ p_ranked' = Truncate(p_ranked, p_cfg.top_k)
    /\ p_result' = [p_result EXCEPT !.ranked_works = Truncate(p_ranked, p_cfg.top_k)]
    /\ Advance("top_k")
    /\ UNCHANGED <<p_caught, p_llm_client, p_candidates>>

\* 12. _generate_summaries, when enabled and there are ranked works.
Summaries ==
    \/ ~(p_cfg.generate_summaries /\ p_cfg.llm_enabled /\ p_ranked # <<>>) /\ Skip("summaries")
    \/ /\ p_cfg.generate_summaries /\ p_cfg.llm_enabled /\ p_ranked # <<>>
       /\ Enter("summaries")
       /\ \/ /\ p_llm_client = None
             /\ Emit("summaries", <<>>)
             /\ Raise("summaries", "create_llm_client",
                      UNCHANGED <<p_llm_client, p_candidates, p_ranked, p_result>>)
          \/ /\ GotLLMClient
             /\ Emit("summaries", <<"summary">>)
             /\ Raise("summaries", "summarize", UNCHANGED <<p_candidates, p_ranked, p_result>>)
          \/ /\ GotLLMClient
             /\ Emit("summaries", <<"summary", "summary", "summary">>)
             /\ p_result' = [p_result EXCEPT
                   !.summarized = Identifiers(p_result.ranked_works),
                   !.stats.summaries_generated = Len(p_result.ranked_works),
                   !.overall_summaries =
                       (IF p_result.interest_works # <<>> THEN {"interest"} ELSE {})
                       \cup (IF p_result.ranked_works # <<>> THEN {"similarity"} ELSE {})]
             /\ Advance("summaries")
             /\ UNCHANGED <<p_caught, p_candidates, p_ranked>>

\* 13. _translate_titles, when enabled.
Translate ==
    \/ ~(p_cfg.translate_titles /\ p_cfg.llm_enabled) /\ Skip("translate")
    \/ /\ p_cfg.translate_titles /\ p_cfg.llm_enabled
       /\ Enter("translate")
       /\ \/ /\ p_llm_client = None
             /\ Emit("translate", <<>>)
             /\ Raise("translate", "create_llm_client",
                      UNCHANGED <<p_llm_client, p_candidates, p_ranked, p_result>>)
          \/ /\ GotLLMClient
             /\ p_result.ranked_works \o p_result.interest_works # <<>>
             /\ Emit("translate", <<"translate">>)
             /\ Raise("translate", "translate", UNCHANGED <<p_candidates, p_ranked, p_result>>)
          \/ /\ GotLLMClient
             /\ Emit("translate",
                     IF p_result.ranked_works \o p_result.interest_works = <<>>
                     THEN <<>> ELSE <<"translate", "translate">>)
             /\ p_result' = [p_result EXCEPT !.translated =
                   Identifiers(p_result.ranked_works) \cup Identifiers(p_result.interest_works)]
             /\ Advance("translate")
             /\ UNCHANGED <<p_caught, p_candidates, p_ranked>>

\* 14. _cleanup_caches, then `return result`.
Cleanup ==
    /\ Enter("cleanup")
    /\ \/ /\ Emit("cleanup", <<>>)
          /\ Raise("cleanup", "cleanup_expired",
                   UNCHANGED <<p_llm_client, p_candidates, p_ranked, p_result>>)
       \/ \* one event for each of the two caches that had expired entries
          /\ \E removed \in SUBSET {"embedding", "metadata"} :
                Emit("cleanup", [i \in 1..Cardinality(removed) |-> "cleanup"])
          /\ Advance("cleanup")
          /\ UNCHANGED <<p_caught, p_llm_client, p_candidates, p_ranked, p_result>>

\* The process is killed between two stages and run() is called again on a pipeline
\* constructed anew with the same settings: the locals of the run are lost, what the
\* collaborators persisted remains.
CrashRestart ==
    /\ RunFrame
    /\ p_pc \in {StageOrder[i] : i \in 1..Len(StageOrder)}
    /\ p_trace # <<>>
    /\ p_pc' = "ensure_profile"
    /\ p_trace' = <<>>
    /\ p_failure' = None
    /\ p_caught' = {}
    /\ p_events' = <<>>
    /\ p_llm_client' = None
    /\ p_candidates' = <<>>
    /\ p_ranked' = <<>>
    /\ p_result' = EmptyResult
    /\ UNCHANGED <<p_cfg, d_recorded>>

RunNext ==
    \/ EnsureProfile
    \/ Sync
    \/ AnalyzeProfile
    \/ Fetch
    \/ Enrich
    \/ Dedupe
    \/ AbstractFilter
    \/ Interest
    \/ RankStage
    \/ Recency
    \/ PreprintCap
    \/ TopK
    \/ Summaries
    \/ Translate
    \/ Cleanup
    \/ CrashRestart


\* The stages of a run the specification calls optional, and those it calls required.
OptionalStages == {"analyze_profile", "enrich", "interest", "summaries", "translate"}
RequiredStages == {"ensure_profile", "sync", "fetch", "dedupe", "rank"}

\* C3: an exception raised inside an optional stage (profile analysis, abstract
\* enrichment, interest selection, summarization, title translation) never leaves
\* run(): it is caught at the stage's boundary and the run goes on.
C3_OptionalStageFailuresCaught ==
    p_failure # None => p_failure[1].stage \notin OptionalStages

\* The order of the stages as the claim lists it.
ClaimedOrder ==
    <<"ensure_profile", "sync", "analyze_profile", "fetch", "enrich", "dedupe",
      "abstract_filter", "interest", "rank", "recency", "preprint_cap", "top_k",
      "summaries", "translate", "cleanup">>
ClaimedPosition(stage) == CHOOSE j \in 1..Len(ClaimedOrder) : ClaimedOrder[j] = stage

\* C9: within one run the stages start in the fixed order profile-existence check,
\* library sync, profile analysis, fetch, enrichment, deduplication, abstract filter,
\* interest selection, ranking, recency filter, preprint cap, top-K, summarization,
\* translation, cache maintenance; none starts before the one executed before it is
\* over, none runs twice, and a run that returns has gone through cache maintenance.
C9_StagesInOrder ==
    /\ \A i, j \in 1..Len(p_trace) :
          i < j => ClaimedPosition(p_trace[i]) < ClaimedPosition(p_trace[j])
    /\ (p_pc \notin {"returned", "raised"} /\ p_trace # <<>>)
          => ClaimedPosition(p_trace[Len(p_trace)]) < ClaimedPosition(p_pc)
    /\ p_pc = "returned" => p_trace[Len(p_trace)] = "cleanup"

\* A run that executed all fifteen stages and returned.
C9_Witness ==
    /\ p_pc = "returned"
    /\ p_trace = ClaimedOrder

\* C10: an exception of a required stage (profile build, library sync, fetch,
\* deduplication, ranking, an embedding failure included) is never caught inside
\* run(): it leaves run(), the failed stage is the last one executed, neither
\* summarization nor translation nor cache maintenance ran, and nothing is returned.
C10_RequiredStageFailureAborts ==
    /\ \A c \in p_caught : c.stage \notin RequiredStages
    /\ (p_failure # None /\ p_failure[1].stage \in RequiredStages)
          => /\ p_pc = "raised"
             /\ p_trace[Len(p_trace)] = p_failure[1].stage
             /\ \A i \in 1..Len(p_trace) :
                   p_trace[i] \notin {"summaries", "translate", "cleanup"}
             /\ p_result.ranked_works = <<>>

\* The embedding provider fails during ranking, after an optional stage ran.
C10_Witness ==
    /\ p_pc = "raised"
    /\ p_failure = Some([stage |-> "rank", point |-> "encode"])
    /\ \E i \in 1..Len(p_trace) : p_trace[i] = "interest"

\* C11: a failure during cache maintenance (cleanup of the embedding cache or of the
\* metadata cache) never aborts the run: a run that started cache maintenance returns
\* its result with the ranked works already computed.
C11_CleanupNeverAborts ==
    (p_trace # <<>> /\ p_trace[Len(p_trace)] = "cleanup" /\ p_pc \in {"returned", "raised"})
        => /\ p_pc = "returned"
           /\ p_failure = None


(***************************************************************************)
(* infrastructure/cache_base.py: one BaseSQLiteCache instance (the         *)
(* embedding cache) shared by several threads.                             *)
(*                                                                         *)
(* cleanup_expired is the code of cache_base.py, in two steps: the DELETE  *)
(* statement, then the commit and the return.  store and lookup belong to  *)
(* the EmbeddingCache subclass and follow its contract: a store writes     *)
(* under the write lock, a lookup reads without it.                        *)
(***************************************************************************)

\* Bounds: the last tick of the clock, the number of store calls.
MaxTime == 2
MaxStores == 2

Threads == {"t1", "t2"}
\* The keys in use: two purposes under one model, two models under one purpose.
Keys == {<<"candidate", "m1", "text">>, <<"profile", "m1", "text">>,
         <<"candidate", "m2", "text">>}
Vectors == {"v1", "v2"}
\* A time-to-live in ticks: None for an entry that does not expire.
TTLs == {None, Some(1), Some(2)}

IsExpiredStrictMutant(expires, now) == expires # None /\ expires[1] < now
IsExpiredEarlyMutant(expires, now) == expires # None /\ expires[1] <= now + 1
\* WHERE {expires_col} IS NOT NULL AND {expires_col} <= datetime('now')
IsExpired(expires, now) == expires # None /\ expires[1] <= now

\* The expiry of an entry stored at `now` with a time-to-live.
ExpiresAt(ttl, now) == IF ttl = None THEN None ELSE Some(now + ttl[1])

\* An entry is visible to a lookup until its expiry.
Visible(expires, now) == expires = None \/ expires[1] > now

CacheFrame ==
    UNCHANGED <<retry_vars, filter_vars, ranker_vars, run_vars, dedupe_vars,
                encoder_vars, http_vars>>

\* BaseSQLiteCache.__init__: a new lock, an empty table.
CacheInit ==
    /\ c_rows = [k \in Keys |-> None]
    /\ c_write_lock = None
    /\ c_now = 0
    /\ c_stored = [k \in Keys |-> None]
    /\ c_stores = 0
    /\ t_pc = [t \in Threads |-> "idle"]
    /\ t_arg = [t \in Threads |-> None]
    /\ c_lookup = None

\* store(purpose, model, text, vector, ttl): the thread takes the write lock.
StoreBegin(t) ==
    /\ CacheFrame
    /\ t_pc[t] = "idle"
    /\ c_stores < MaxStores
    /\ c_write_lock = None
    /\ c_write_lock' = Some(t)
    /\ \E key \in Keys, vector \in Vectors, ttl \in TTLs :
          t_arg' = [t_arg EXCEPT ![t] = Some([key |-> key, vector |-> vector, ttl |-> ttl])]
    /\ t_pc' = [t_pc EXCEPT ![t] = "store_write"]
    /\ c_stores' = c_stores + 1
    /\ UNCHANGED <<c_rows, c_now, c_stored, c_lookup>>

\* store: the row is written and committed, the lock released.
StoreWrite(t) ==
    /\ CacheFrame
    /\ t_pc[t] = "store_write"
    /\ LET a == t_arg[t][1]
           row == Some([vector |-> a.vector, expires |-> ExpiresAt(a.ttl, c_now)])
       IN /\ c_rows' = [c_rows EXCEPT ![a.key] = row]
          /\ c_stored' = [c_stored EXCEPT ![a.key] = row]
    /\ c_write_lock' = None
    /\ t_pc' = [t_pc EXCEPT ![t] = "idle"]
    /\ t_arg' = [t_arg EXCEPT ![t] = None]
    /\ UNCHANGED <<c_now, c_stores, c_lookup>>

\* lookup(purpose, model, text): the vector of the key's row if it has not expired.
Lookup(t) ==
    /\ CacheFrame
    /\ t_pc[t] = "idle"
    /\ \E key \in Keys :
          LET row == c_rows[key]
              result == IF row # None /\ Visible(row[1].expires, c_now)
                        THEN Some(row[1].vector) ELSE None
          IN c_lookup' = Some([key |-> key, result |-> result])
    /\ UNCHANGED <<c_rows, c_write_lock, c_now, c_stored, c_stores, t_pc, t_arg>>

\* cleanup_expired: conn.execute(DELETE ...) and count = cur.rowcount.
CleanupDelete(t) ==
    /\ CacheFrame
    /\ t_pc[t] = "idle"
    /\ LET deleted == {k \in Keys : c_rows[k] # None /\ IsExpired(c_rows[k][1].expires, c_now)}
           count == Cardinality(deleted)
       IN /\ c_rows' = [k \in Keys |-> IF k \in deleted THEN None ELSE c_rows[k]]
          /\ t_arg' = [t_arg EXCEPT ![t] = Some(count)]
    /\ t_pc' = [t_pc EXCEPT ![t] = "cleanup_commit"]
    /\ UNCHANGED <<c_write_lock, c_now, c_stored, c_stores, c_lookup>>

\* cleanup_expired: conn.commit() and `return count`.
CleanupCommit(t) ==
    /\ CacheFrame
    /\ t_pc[t] = "cleanup_commit"
    /\ t_pc' = [t_pc EXCEPT ![t] = "idle"]
    /\ t_arg' = [t_arg EXCEPT ![t] = None]
    /\ UNCHANGED <<c_rows, c_write_lock, c_now, c_stored, c_stores, c_lookup>>

\* Time passes.
Tick ==
    /\ CacheFrame
    /\ c_now < MaxTime
    /\ c_now' = c_now + 1
    /\ UNCHANGED <<c_rows, c_write_lock, c_stored, c_stores, t_pc, t_arg, c_lookup>>

CacheNext ==
    \/ \E t \in Threads : StoreBegin(t)
    \/ \E t \in Threads : StoreWrite(t)
    \/ \E t \in Threads : Lookup(t)
    \/ \E t \in Threads : CleanupDelete(t)
    \/ \E t \in Threads : CleanupCommit(t)
    \/ Tick


\* The positions of a thread inside a write to the backing store.
WritePositions == {"store_write", "cleanup_commit"}

\* C17: for one cache instance used by several threads at most one write to the
\* backing store (the store of an entry, or the deletion and commit of
\* cleanup_expired) is executing at any time, and the thread executing it holds the
\* instance's write lock for the whole write.
C17_OneWriterAtATime ==
    /\ Cardinality({t \in Threads : t_pc[t] \in WritePositions}) <= 1
    /\ \A t \in Threads : t_pc[t] \in WritePositions => c_write_lock = Some(t)

\* C18: cleanup_expired removes exactly the entries whose expiry is set and is not
\* later than the current time, returns the number of entries removed and leaves
\* every other entry unchanged; no step of any operation removes an entry that has no
\* expiry.
C18_CleanupRemovesExactlyExpired ==
    [][/\ \A t \in Threads :
             (t_pc[t] = "idle" /\ t_pc'[t] = "cleanup_commit")
             => LET gone == {k \in Keys : /\ c_rows[k] # None
                                          /\ c_rows[k][1].expires # None
                                          /\ c_rows[k][1].expires[1] <= c_now}
                IN /\ \A k \in Keys : c_rows'[k] = IF k \in gone THEN None ELSE c_rows[k]
                   /\ t_arg'[t] = Some(Cardinality(gone))
       /\ \A k \in Keys :
             (c_rows[k] # None /\ c_rows[k][1].expires = None) => c_rows'[k] # None
      ]_vars

\* cleanup_expired has deleted one entry, at the tick of its expiry, and is about to
\* return 1, while an entry without expiry and an entry not yet expired remain.
C18_Witness ==
    \E t \in Threads, gone \in Keys, kept \in Keys :
        /\ t_pc[t] = "cleanup_commit"
        /\ t_arg[t] = Some(1)
        /\ c_rows[gone] = None
        /\ c_stored[gone] # None
        /\ c_stored[gone][1].expires = Some(c_now)
        /\ c_rows[kept] # None
        /\ c_rows[kept][1].expires = None

\* C19: a lookup of a key returns the vector of the key's last store as long as the
\* time-to-live of that store has not elapsed and a miss once it has (or when the key
\* was never stored), whether or not cleanup_expired has run in between; it never
\* returns a vector stored under another purpose or model.
C19_LookupAfterStore ==
    [][c_lookup' # c_lookup
       => LET key == c_lookup'[1].key
              stored == c_stored[key]
          IN c_lookup'[1].result =
                IF stored # None
                   /\ (stored[1].expires = None \/ c_now < stored[1].expires[1])
                THEN Some(stored[1].vector)
                ELSE None
      ]_vars

\* A lookup missed on a key whose entry has expired and has not been reclaimed, after
\* cleanup_expired reclaimed the entry of a key of another purpose or model.
C19_Witness ==
    /\ c_lookup # None
    /\ c_lookup[1].result = None
    /\ c_rows[c_lookup[1].key] # None
    /\ c_rows[c_lookup[1].key][1].expires # None
    /\ c_rows[c_lookup[1].key][1].expires[1] <= c_now
    /\ \E k \in Keys : c_stored[k] # None /\ c_rows[k] = None


\* C22: five fetched candidates, two of a preprint source and three of a journal
\* source, exactly one without abstract, none seen before, all recent, with
\* require_abstract, top_k >= 5 and the default max_preprint_ratio: whatever the
\* scores, the run yields exactly 4 ranked works in non-increasing score order, each
\* labelled according to the thresholds computed for the batch.
C22_FiveCandidatesYieldFour ==
    (/\ p_pc = "returned"
     /\ p_cfg = ScenarioRunConfig
     /\ p_result.stats.candidates_fetched = 5
     /\ p_result.stats.candidates_after_dedupe = 5)
    => /\ Len(p_result.ranked_works) = 4
       /\ \A i, j \in 1..Len(p_result.ranked_works) :
             i < j => p_result.ranked_works[i].score >= p_result.ranked_works[j].score
       /\ p_result.computed_thresholds # None
       /\ \A i \in 1..Len(p_result.ranked_works) :
             LET w == p_result.ranked_works[i]
                 t == p_result.computed_thresholds[1]
             IN w.label = IF 100 * w.score >= t.must_read THEN "must_read"
                          ELSE IF 100 * w.score >= t.consider THEN "consider"
                          ELSE "ignore"


\* C23: a run that is killed at a stage boundary and started again from the beginning
\* with the same fetched candidates completes with every candidate an uninterrupted
\* run recommends; for the run over two new, recent journal papers with abstracts and
\* no limit, whose uninterrupted run recommends both, every run that returns
\* recommends both.
C23_RestartedRunRecommendsAll ==
    (p_pc = "returned" /\ p_cfg = RestartRunConfig)
        => Identifiers(p_result.ranked_works) = 1..Len(RestartBatch)

\* C24: when the index file is absent at the start of run(), the run does a full
\* profile build (library ingest, then index build) and goes on with the sync and
\* the later stages: once the library ingest of the build has succeeded, the
\* profile-existence check does not end the run.
C24_MissingProfileIsBuilt ==
    (~p_cfg.profile_exists /\ p_pc = "raised" /\ p_failure[1].stage = "ensure_profile")
        => p_failure[1].point = "full_ingest"

\* C25: every stage that executes in a run (the abstract filter, the recency filter,
\* the preprint cap, the top-K truncation and cache maintenance included) delivers
\* at least one event to the sink, and the events arrive in the order the stages
\* executed: in a run that returned, every stage of the trace has an event sent
\* while it ran, and the events follow the order of the trace.
C25_EveryStageReports ==
    p_pc = "returned" =>
        /\ \A i \in 1..Len(p_trace) :
              \E j \in 1..Len(p_events) : p_events[j].stage = p_trace[i]
        /\ \A j, k \in 1..Len(p_events) :
              j < k => \E a, b \in 1..Len(p_trace) :
                          /\ a <= b
                          /\ p_trace[a] = p_events[j].stage
                          /\ p_trace[b] = p_events[k].stage

\* C26: in the result of run(), with top_k > 0 ranked_works has at most top_k entries
\* and is the leading, highest-scoring prefix of the list the recency filter and the
\* preprint cap left; with top_k = 0 that list is returned untruncated.
C26_TopKIsLeadingPrefix ==
    [][(p_pc = "top_k" /\ p_pc' = StageAfter("top_k")) =>
          LET top_k == p_cfg.top_k
              left == p_ranked
              out == p_result'.ranked_works
          IN /\ top_k > 0 =>
                   /\ Len(out) = (IF Len(left) < top_k THEN Len(left) ELSE top_k)
                   /\ out = SubSeq(left, 1, Len(out))
                   /\ \A i \in 1..Len(out), j \in (Len(out) + 1)..Len(left) :
                         out[i].score >= left[j].score
             /\ top_k = 0 => out = left]_vars

\* A run whose two candidates both passed the recency filter and the preprint cap
\* and whose result was cut to top_k = 1.
C26_Witness ==
    /\ p_pc = "returned"
    /\ p_cfg.top_k = 1
    /\ p_result.stats.candidates_after_recent_filter = 2
    /\ \A i \in 1..Len(p_candidates) : p_candidates[i].source = "crossref"
    /\ Len(p_result.ranked_works) = 1

\* C27: filter_without_abstract returns (kept, removed) where kept is, in input
\* order, exactly the candidates whose abstract is present and non-empty, a
\* whitespace-only abstract counting as present, and removed is the number of
\* candidates of the input that are not in kept.
C27_KeptHaveAbstracts ==
    f_op = "filter_without_abstract" =>
        LET kept == f_out[1]
            removed == f_out[2]
        IN /\ \A i \in 1..Len(kept) : kept[i] = f_in[kept[i].identifier]
           /\ \A i, j \in 1..Len(kept) : i < j => kept[i].identifier < kept[j].identifier
           /\ \A i \in 1..Len(f_in) :
                 (\E j \in 1..Len(kept) : kept[j].identifier = i)
                     <=> f_in[i].abstract \in {Some(" "), Some("text")}
           /\ removed = Len(f_in) - Len(kept)

\* A call that kept a candidate with a blank abstract and removed another candidate.
C27_Witness ==
    /\ f_op = "filter_without_abstract"
    /\ f_out[2] > 0
    /\ \E j \in 1..Len(f_out[1]) : f_out[1][j].abstract = Some(" ")

\* The wrapper has returned or raised.
RetryOver == r_pc \in {"returned", "raised", "propagated"}

\* C28: when func fails transiently on its first k - 1 attempts and succeeds on
\* attempt k <= max_attempts, with_retry returns after exactly k invocations and
\* k - 1 sleeps and invokes nothing afterwards; every execution ends, after at least
\* one and at most max_attempts invocations: while the wrapper is in its loop a step
\* is possible, every step of the loop invokes func or ends the call, and the number
\* of invocations never exceeds max_attempts.
C28_ReturnsAtFirstSuccess ==
    /\ [](r_pc = "returned" =>
            /\ calls = Len(fails) + 1
            /\ Len(sleeps) = Len(fails)
            /\ calls <= r_cfg.max_attempts)
    /\ [](r_pc # "idle" => calls <= r_cfg.max_attempts)
    /\ [](RetryOver => calls >= 1)
    /\ [](r_pc = "loop" => ENABLED RetryNext)
    /\ [][r_pc = "loop" => (calls' = calls + 1 \/ RetryOver')]_vars
    /\ [][RetryOver => calls' = calls]_vars

\* func failed transiently twice and succeeded on its third attempt.
C28_Witness ==
    /\ r_pc = "returned"
    /\ Len(fails) = 2
    /\ calls = 3

\* The thresholds of the claim before the adjustment: the percentile of the batch
\* scores, or the configured minimum if that is larger.
ClaimedMustRead(cfg, batch) ==
    Max(Percentile(AllScores(batch), cfg.dynamic.must_read_percentile),
        ToThreshold(cfg.dynamic.min_must_read))
ClaimedConsider(cfg, batch) ==
    Max(Percentile(AllScores(batch), cfg.dynamic.consider_percentile),
        ToThreshold(cfg.dynamic.min_consider))

\* C29: in dynamic mode with at least two scores, consider is the larger of the
\* consider percentile of the batch scores and min_consider; must_read is the larger
\* of the must-read percentile and min_must_read, or consider + 0.01 when that is not
\* above consider; must_read >= min_must_read and consider >= min_consider.
C29_DynamicThresholds ==
    (k_pc = "ranked" /\ k_cfg.mode = "dynamic" /\ Len(k_candidates) >= 2) =>
        LET must_read == ClaimedMustRead(k_cfg, k_candidates)
            consider == ClaimedConsider(k_cfg, k_candidates)
            computed == last_computed_thresholds[1]
        IN /\ computed.mode = "dynamic"
           /\ computed.consider = consider
           /\ computed.must_read = (IF must_read <= consider THEN consider + 100 ELSE must_read)
           /\ computed.must_read >= ToThreshold(k_cfg.dynamic.min_must_read)
           /\ computed.consider >= ToThreshold(k_cfg.dynamic.min_consider)

\* A batch whose must-read percentile, raised to its minimum, was not above the
\* consider threshold, the minimums being positive.
C29_Witness ==
    /\ k_pc = "ranked" /\ k_cfg.mode = "dynamic" /\ Len(k_candidates) >= 2
    /\ k_cfg.dynamic.min_must_read > 0
    /\ ClaimedMustRead(k_cfg, k_candidates) <= ClaimedConsider(k_cfg, k_candidates)
    /\ last_computed_thresholds[1].must_read = ClaimedConsider(k_cfg, k_candidates) + 100

\* C30: within one rank call no label is assigned before the scores of all the
\* candidates of the batch are computed and the thresholds derived from them, and
\* every work of the batch is labelled against that one pair of thresholds: the label
\* of every work returned is the one its score has under the thresholds of the
\* scores of the whole batch.
C30_LabelsAfterAllScores ==
    (k_pc = "ranked" /\ k_ranked # <<>>) =>
        \E t \in {ComputeThresholds(k_cfg, AllScores(k_candidates))} :
            \A i \in 1..Len(k_ranked) :
                /\ k_ranked[i].score = AllScores(k_candidates)[k_ranked[i].identifier]
                /\ k_ranked[i].label = AssignLabel(k_ranked[i].score, t)

\* A batch whose first candidate has another label under the thresholds of the whole
\* batch than under those its own score alone would give.
C30_Witness ==
    /\ k_pc = "ranked" /\ k_cfg.mode = "dynamic" /\ Len(k_candidates) >= 2
    /\ LET first == AllScores(k_candidates)[1]
       IN AssignLabel(first, ComputeThresholds(k_cfg, <<first>>))
              # AssignLabel(first, last_computed_thresholds[1])


(***************************************************************************)
(* infrastructure/embedding/voyage.py: VoyageEmbedding.encode              *)
(***************************************************************************)

\* Bound on the number of texts given to encode.
MaxTexts == 3
\* Bound on the batch size of the provider.
MaxBatchSize == 2

\* Texts as the callers pass them: plain, padded, empty, blank.
TextValues == {"a", " b ", "", " "}

\* t.strip() if t and t.strip() else "[untitled]"
CleanText(t) ==
    CASE t = " b " -> "b"
      [] t \in {"", " "} -> "[untitled]"
      [] OTHER -> t

\* The vector the provider computes for a text of a request, not normalized.
ProviderEmbedding(text) == [of |-> text, unit |-> FALSE]

\* embeddings / norms: L2 normalization of every row.
Normalized(embeddings) ==
    [i \in 1..Len(embeddings) |-> [embeddings[i] EXCEPT !.unit = TRUE]]

\* batch = texts[i : i + self.batch_size], of the cleaned texts
Chunk(texts, i, batch_size) ==
    [j \in 1..((IF i + batch_size < Len(texts) THEN i + batch_size ELSE Len(texts)) - i)
        |-> CleanText(texts[i + j])]

EncoderFrame ==
    UNCHANGED <<retry_vars, filter_vars, ranker_vars, run_vars, cache_vars, dedupe_vars,
                http_vars>>

EncoderInit ==
    /\ e_pc = "idle"
    /\ e_cfg = [batch_size |-> 1, api_key |-> TRUE]
    /\ e_texts = <<>>
    /\ e_i = 0
    /\ e_requests = <<>>
    /\ e_all = <<>>
    /\ e_out = None
    /\ e_error = None

\* encode(texts) on a provider with an API key: voyage.py lines 48-56.
EncodeCall ==
    /\ EncoderFrame
    /\ e_pc = "idle"
    /\ \E b \in 1..MaxBatchSize : e_cfg' = [batch_size |-> b, api_key |-> TRUE]
    /\ \E texts \in WorkLists(TextValues, MaxTexts) : e_texts' = texts
    /\ e_pc' = "loop"
    /\ UNCHANGED <<e_i, e_requests, e_all, e_out, e_error>>

\* encode(texts) on a provider without API key: _get_client raises.
EncodeNoKey ==
    /\ EncoderFrame
    /\ e_pc = "idle"
    /\ \E b \in 1..MaxBatchSize : e_cfg' = [batch_size |-> b, api_key |-> FALSE]
    /\ \E texts \in WorkLists(TextValues, MaxTexts) : e_texts' = texts
    /\ e_pc' = "raised"
    /\ e_error' = Some("ConfigurationError")
    /\ UNCHANGED <<e_i, e_requests, e_all, e_out>>

\* One iteration of the loop: client.embed(batch, ...) returns one vector per text.
EmbedChunk ==
    /\ EncoderFrame
    /\ e_pc = "loop" /\ e_i < Len(e_texts)
    /\ LET batch == Chunk(e_texts, e_i, e_cfg.batch_size)
       IN /\ e_requests' = Append(e_requests, batch)
          /\ e_all' = e_all \o [j \in 1..Len(batch) |-> ProviderEmbedding(batch[j])]
    /\ e_i' = e_i + e_cfg.batch_size
    /\ UNCHANGED <<e_pc, e_cfg, e_texts, e_out, e_error>>

\* One iteration of the loop: client.embed raises, and the exception leaves encode.
EmbedChunkFails ==
    /\ EncoderFrame
    /\ e_pc = "loop" /\ e_i < Len(e_texts)
    /\ e_requests' = Append(e_requests, Chunk(e_texts, e_i, e_cfg.batch_size))
    /\ e_pc' = "raised"
    /\ e_error' = Some("ProviderError")
    /\ UNCHANGED <<e_cfg, e_texts, e_i, e_all, e_out>>

\* After the loop: voyage.py lines 68-71. np.asarray of an empty list has one
\* dimension, and np.linalg.norm(..., axis=1) raises AxisError on it.
EncodeReturn ==
    /\ EncoderFrame
    /\ e_pc = "loop" /\ e_i >= Len(e_texts)
    /\ IF e_all = <<>>
       THEN /\ e_pc' = "raised"
            /\ e_error' = Some("AxisError")
            /\ UNCHANGED e_out
       ELSE /\ e_pc' = "returned"
            /\ e_out' = Some(Normalized(e_all))
            /\ UNCHANGED e_error
    /\ UNCHANGED <<e_cfg, e_texts, e_i, e_requests, e_all>>

EncoderNext ==
    \/ EncodeCall
    \/ EncodeNoKey
    \/ EmbedChunk
    \/ EmbedChunkFails
    \/ EncodeReturn


(***************************************************************************)
(* infrastructure/http/client.py: HTTPClient._request                      *)
(*                                                                         *)
(* Delays and sleeps are in seconds.                                       *)
(***************************************************************************)

\* Bound on max_retries.
MaxRetries == 3

HttpClientConfigs == [max_retries : 1..MaxRetries, backoff_factor : {1, 2}]

\* The url of the request.
RequestUrl == "https://api.example.org/works"

\* Status codes of the responses a server gives, 429 apart.
ResponseStatuses == {200, 404, 500}

\* The Retry-After header of a 429 response: absent, whole seconds, a decimal
\* number, an HTTP date.
HttpRetryAfterHeaders == {None, Some("2"), Some("1.5"), Some("Wed, 21 Oct 2026 07:28:00 GMT")}

\* int(s): the number a header string parses to, None for ValueError.
ParseInt(s) == IF s = "2" THEN Some(2) ELSE None

\* Exceptions of session.request, all of them subclasses of RequestException.
RequestExceptions == {"ConnectionError", "Timeout"}

\* if attempt < self.max_retries - 1
HttpMaySleep(a, max_retries) == a < max_retries - 1

HttpFrame ==
    UNCHANGED <<retry_vars, filter_vars, ranker_vars, run_vars, cache_vars, dedupe_vars,
                encoder_vars>>

HttpInit ==
    /\ h_pc = "idle"
    /\ h_cfg = [max_retries |-> 3, backoff_factor |-> 2]
    /\ h_attempt = 0
    /\ h_delay = 1
    /\ h_last_exception = None
    /\ h_responses = <<>>
    /\ h_sleeps = <<>>
    /\ h_result = None
    /\ h_error = None

\* _request(method, url, **kwargs) is called: client.py lines 53-55.
RequestCall ==
    /\ HttpFrame
    /\ h_pc = "idle"
    /\ h_cfg' \in HttpClientConfigs
    /\ h_pc' = "loop"
    /\ h_attempt' = 0
    /\ h_delay' = 1
    /\ UNCHANGED <<h_last_exception, h_responses, h_sleeps, h_result, h_error>>

\* session.request returns a response whose status is not 429: client.py line 72.
RequestReturns ==
    /\ HttpFrame
    /\ h_pc = "loop" /\ h_attempt < h_cfg.max_retries
    /\ \E status \in ResponseStatuses :
          /\ h_responses' = Append(h_responses, [kind |-> "response", status_code |-> status])
          /\ h_result' = Some([status_code |-> status])
    /\ h_pc' = "returned"
    /\ UNCHANGED <<h_cfg, h_attempt, h_delay, h_last_exception, h_sleeps, h_error>>

\* session.request returns 429 and int(...) accepts the Retry-After header or the
\* header is absent: client.py lines 60-71.
RequestRateLimited ==
    /\ HttpFrame
    /\ h_pc = "loop" /\ h_attempt < h_cfg.max_retries
    /\ \E header \in HttpRetryAfterHeaders :
          /\ IF header = None THEN TRUE ELSE ParseInt(header[1]) # None
          /\ h_responses' = Append(h_responses, [kind |-> "response", status_code |-> 429])
          /\ LET retry_after == IF header = None THEN h_delay ELSE ParseInt(header[1])[1]
             IN h_sleeps' = Append(h_sleeps, [attempt |-> h_attempt, seconds |-> retry_after])
    /\ h_delay' = h_delay * h_cfg.backoff_factor
    /\ h_attempt' = h_attempt + 1
    /\ UNCHANGED <<h_pc, h_cfg, h_last_exception, h_result, h_error>>

\* session.request returns 429 with a Retry-After header int(...) rejects: the
\* ValueError is no RequestException and leaves _request.
RequestBadRetryAfter ==
    /\ HttpFrame
    /\ h_pc = "loop" /\ h_attempt < h_cfg.max_retries
    /\ \E header \in HttpRetryAfterHeaders :
          /\ IF header = None THEN FALSE ELSE ParseInt(header[1]) = None
          /\ h_responses' = Append(h_responses, [kind |-> "response", status_code |-> 429])
    /\ h_pc' = "raised"
    /\ h_error' = Some([type |-> "ValueError", url |-> None])
    /\ UNCHANGED <<h_cfg, h_attempt, h_delay, h_last_exception, h_sleeps, h_result>>

\* session.request raises a RequestException: client.py lines 73-83.
RequestFails ==
    /\ HttpFrame
    /\ h_pc = "loop" /\ h_attempt < h_cfg.max_retries
    /\ \E e \in RequestExceptions :
          /\ h_responses' = Append(h_responses, [kind |-> "exception", status_code |-> 0])
          /\ h_last_exception' = Some(e)
    /\ IF HttpMaySleep(h_attempt, h_cfg.max_retries)
       THEN /\ h_sleeps' = Append(h_sleeps, [attempt |-> h_attempt, seconds |-> h_delay])
            /\ h_delay' = h_delay * h_cfg.backoff_factor
       ELSE UNCHANGED <<h_sleeps, h_delay>>
    /\ h_attempt' = h_attempt + 1
    /\ UNCHANGED <<h_pc, h_cfg, h_result, h_error>>

\* The loop is over: client.py lines 85-87.
RequestExhausted ==
    /\ HttpFrame
    /\ h_pc = "loop" /\ h_attempt >= h_cfg.max_retries
    /\ h_pc' = "raised"
    /\ h_error' = Some([type |-> "NetworkError", url |-> Some(RequestUrl)])
    /\ UNCHANGED <<h_cfg, h_attempt, h_delay, h_last_exception, h_responses, h_sleeps,
                   h_result>>

HttpNext ==
    \/ RequestCall
    \/ RequestReturns
    \/ RequestRateLimited
    \/ RequestBadRetryAfter
    \/ RequestFails
    \/ RequestExhausted


\* The work comes from a source that is not a preprint server.
IsJournalWork(work) == work.source = "crossref"

\* C31: limit_preprints returns a subsequence of its input: the works kept are works
\* of the input in their input order, none added or repeated, and every work that is
\* not a preprint is kept.
C31_SubsequenceKeepingJournals ==
    f_op = "limit_preprints" =>
        /\ \A j \in 1..Len(f_out) :
              /\ f_out[j].identifier \in 1..Len(f_in)
              /\ f_out[j] = f_in[f_out[j].identifier]
        /\ \A j \in 1..(Len(f_out) - 1) : f_out[j].identifier < f_out[j + 1].identifier
        /\ \A i \in 1..Len(f_in) :
              IsJournalWork(f_in[i]) => \E j \in 1..Len(f_out) : f_out[j].identifier = i

\* A call that removed a preprint standing between two journal works.
C31_Witness ==
    /\ f_op = "limit_preprints"
    /\ Len(f_in) = 3 /\ Len(f_out) = 2
    /\ IsJournalWork(f_in[1]) /\ ~IsJournalWork(f_in[2]) /\ IsJournalWork(f_in[3])

\* C32: for 0 < max_ratio <= 1 every non-empty prefix of the list limit_preprints
\* returns has a preprint fraction of at most max_ratio; hence for max_ratio < 1 the
\* first work returned is not a preprint, and a list of one preprint yields the empty
\* list.
C32_EveryPrefixCapped ==
    (f_op = "limit_preprints" /\ 0 < f_arg /\ f_arg <= 10) =>
        /\ \A n \in 1..Len(f_out) :
              PreprintCount(SubSeq(f_out, 1, n)) * 10 <= f_arg * n
        /\ (f_arg < 10 /\ f_out # <<>>) => IsJournalWork(f_out[1])
        /\ (f_arg < 10 /\ Len(f_in) = 1 /\ ~IsJournalWork(f_in[1])) => f_out = <<>>

\* A call with max_ratio 0.5 that kept a preprint after a journal work and rejected
\* the preprints before and after them.
C32_Witness ==
    /\ f_op = "limit_preprints" /\ f_arg = 5
    /\ Len(f_in) = 4 /\ Len(f_out) = 2
    /\ ~IsJournalWork(f_in[1]) /\ IsJournalWork(f_in[2])
    /\ ~IsJournalWork(f_in[3]) /\ ~IsJournalWork(f_in[4])
    /\ f_out[2].identifier = 3

\* C36: limit_preprints is idempotent: applied with the same max_ratio to the list
\* it returned, it returns that list.
C36_LimitPreprintsIdempotent ==
    f_op = "limit_preprints" => LimitPreprints(f_out, f_arg) = f_out

\* A call that removed preprints and kept one.
C36_Witness ==
    /\ f_op = "limit_preprints"
    /\ Len(f_out) < Len(f_in)
    /\ PreprintCount(f_out) > 0

\* C37: in every completed run with max_preprint_ratio > 0 the preprint fraction of
\* result.ranked_works, the list after the top-K truncation, is at most
\* max_preprint_ratio.
C37_ResultRespectsPreprintCap ==
    (p_pc = "returned" /\ p_cfg.max_preprint_ratio > 0) =>
        PreprintCount(p_result.ranked_works) * 10
            <= p_cfg.max_preprint_ratio * Len(p_result.ranked_works)

\* A completed run whose result was cut by top_k and still holds a preprint.
C37_Witness ==
    /\ p_pc = "returned"
    /\ p_cfg.top_k = 2
    /\ Len(p_result.ranked_works) = p_cfg.top_k
    /\ p_result.stats.candidates_after_recent_filter > p_cfg.top_k
    /\ PreprintCount(p_result.ranked_works) > 0

\* C38: in the statistics of every completed run the counters do not increase along
\* the pipeline: candidates_fetched >= candidates_after_dedupe >=
\* candidates_after_abstract_filter >= candidates_after_recent_filter >=
\* len(ranked_works), whatever the configuration, require_abstract = false included.
C38_CountersNonIncreasing ==
    p_pc = "returned" =>
        LET stats == p_result.stats
        IN /\ stats.candidates_fetched >= stats.candidates_after_dedupe
           /\ stats.candidates_after_dedupe >= stats.candidates_after_abstract_filter
           /\ stats.candidates_after_abstract_filter >= stats.candidates_after_recent_filter
           /\ stats.candidates_after_recent_filter >= Len(p_result.ranked_works)

\* ceil(n / b)
CeilDiv(n, b) == (n + b - 1) \div b

\* The concatenation of the chunks of a sequence of requests.
RECURSIVE Flatten(_)
Flatten(chunks) ==
    IF chunks = <<>> THEN <<>> ELSE Head(chunks) \o Flatten(Tail(chunks))

\* The call of encode is over and neither the configuration nor the provider failed.
EncodeUndisturbed ==
    /\ e_pc \in {"returned", "raised"}
    /\ e_error \notin {Some("ConfigurationError"), Some("ProviderError")}

\* C33: encode of n texts with batch size b issues ceil(n / b) requests in input
\* order, each of at most b texts, and returns n vectors in input order; when a
\* request fails no vectors are returned and the failed request is the last one.
C33_EncodeChunksInOrder ==
    /\ EncodeUndisturbed =>
          /\ e_pc = "returned"
          /\ Len(e_requests) = CeilDiv(Len(e_texts), e_cfg.batch_size)
          /\ \A r \in 1..Len(e_requests) : Len(e_requests[r]) <= e_cfg.batch_size
          /\ Flatten(e_requests) = [i \in 1..Len(e_texts) |-> CleanText(e_texts[i])]
          /\ e_out # None
          /\ Len(e_out[1]) = Len(e_texts)
          /\ \A i \in 1..Len(e_texts) : e_out[1][i].of = CleanText(e_texts[i])
    /\ e_error = Some("ProviderError") =>
          /\ e_pc = "raised"
          /\ e_out = None
          /\ Len(e_requests) <= CeilDiv(Len(e_texts), e_cfg.batch_size)

\* C39: _request sends at most max_retries requests, returns the first response
\* whose status is not 429, sleeps only between two attempts, and raises
\* NetworkError carrying the url when all attempts are used up.
C39_SleepsOnlyBetweenAttempts ==
    /\ Len(h_responses) <= h_cfg.max_retries
    /\ h_pc = "returned" =>
          /\ h_result = Some([status_code |-> h_responses[Len(h_responses)].status_code])
          /\ h_result[1].status_code # 429
          /\ \A i \in 1..(Len(h_responses) - 1) :
                \/ h_responses[i].kind = "exception"
                \/ h_responses[i].status_code = 429
    /\ \A i \in 1..Len(h_sleeps) : h_sleeps[i].attempt < h_cfg.max_retries - 1
    /\ (h_pc = "raised" /\ Len(h_responses) = h_cfg.max_retries /\ h_attempt = h_cfg.max_retries) =>
          h_error = Some([type |-> "NetworkError", url |-> Some(RequestUrl)])

\* C40: every failure _request reports to its caller is a NetworkError.
C40_OnlyNetworkErrorEscapes ==
    h_pc = "raised" => (h_error # None /\ h_error[1].type = "NetworkError")


\* The attempt failed with HTTP 429 and no usable Retry-After: the header is
\* absent, empty or no number.
IsRateLimitWithoutDelay(out) ==
    /\ out.kind = "http" /\ out.response # None
    /\ out.response[1].status_code = 429
    /\ out.response[1].retry_after \in {None, Some(""), Some("abc")}

\* C34: an attempt that fails with HTTP 429 without usable suggested delay, and is
\* not the final attempt, sleeps for the currently computed backoff delay (with its
\* jitter) and leaves the delay multiplied by backoff_factor, as any other transient
\* failure does.
C34_RateLimitWithoutDelayBacksOff ==
    [][(/\ r_pc = "loop"
        /\ Len(fails') = Len(fails) + 1
        /\ IsRateLimitWithoutDelay(fails'[Len(fails')])
        /\ attempt < r_cfg.max_attempts - 1)
       => /\ Len(sleeps') = Len(sleeps) + 1
          /\ \E u \in {-r_cfg.jitter, 0, r_cfg.jitter} :
                sleeps'[Len(sleeps')] = delay * (10 + u)
          /\ delay' = delay * r_cfg.backoff_factor
          /\ attempt' = attempt + 1
          /\ r_pc' = "loop"]_vars

\* A second or later attempt failed with 429 without usable suggested delay and the
\* wrapper slept after it, the backoff delay having advanced before.
C34_Witness ==
    /\ r_pc = "loop"
    /\ r_cfg.backoff_factor = 2
    /\ \E i \in 2..Len(fails) :
          /\ IsRateLimitWithoutDelay(fails[i])
          /\ Len(sleeps) >= i
          /\ \A j \in 1..i : ~HasSuggestedDelay(fails[j])

\* C35: with jitter 0 the delays slept between consecutive attempts of one call are
\* non-decreasing, also when a 429 carries a Retry-After below the current delay.
C35_SleepsNonDecreasing ==
    (r_pc # "idle" /\ r_cfg.jitter = 0 /\ r_cfg.backoff_factor >= 1) =>
        \A i \in 1..(Len(sleeps) - 1) : sleeps[i] <= sleeps[i + 1]


Init ==
    /\ RetryInit /\ FilterInit /\ RankerInit /\ RunInit /\ CacheInit /\ DedupeInit
    /\ EncoderInit /\ HttpInit

Next ==
    \/ RetryNext \/ FilterNext \/ RankerNext \/ RunNext \/ CacheNext \/ DedupeNext
    \/ EncoderNext \/ HttpNext

Spec == Init /\ [][Next]_vars

SpecRetry == Init /\ [][RetryNext]_vars

SpecFilters == Init /\ [][FilterNext]_vars

InitRanker ==
    /\ RetryInit /\ FilterInit /\ RankerInitAny /\ RunInit /\ CacheInit /\ DedupeInit
    /\ EncoderInit /\ HttpInit

InitRun ==
    /\ RetryInit /\ FilterInit /\ RankerInit /\ RunInitAny /\ CacheInit /\ StorageInitAny
    /\ EncoderInit /\ HttpInit

SpecRun == InitRun /\ [][RunNext]_vars

SpecRanker == InitRanker /\ [][RankerNext]_vars

SpecCache == Init /\ [][CacheNext]_vars

SpecDedupe == Init /\ [][DedupeNext]_vars

SpecEncoder == Init /\ [][EncoderNext]_vars

SpecHttp == Init /\ [][HttpNext]_vars

====
